---- MODULE Spec2Model ----
(***************************************************************************)
(* Request orchestration engine of routers/proxy_router_v2.js: the        *)
(* per-tenant queue in the KV store, the per-tenant worker                 *)
(* (processUserQueue), the cleanup script, the process-local worker        *)
(* registry (userWorkers), the chat admission (POST /chat) and the         *)
(* result coupling (waitForResult).                                        *)
(*                                                                         *)
(* Granularity.  Every KV command executes atomically at the store.  The   *)
(* commands a process sends on redisClient are answered in the order they  *)
(* were sent and their continuations run in that order, and a continuation *)
(* touches only process-local state (userWorkers, the coroutine's          *)
(* position) before it sends the next command.  An action is therefore     *)
(* "one command executes at the store and its continuation runs up to the  *)
(* next await".  The one place where the time between sending a command    *)
(* and its reply matters is waitForResult, whose setInterval callback      *)
(* fires again while earlier callbacks still await their get: there the    *)
(* sending and the reply (GetReply, DelReply) are separate.               *)
(*                                                                         *)
(* Time.  The model keeps no clock; it separates two time scales.  Short   *)
(* steps are the KV commands and what follows them up to the next await,   *)
(* the 1 s blpop timeout and the 100 ms poll interval.  Long events are    *)
(* the return or failure of an adapter call (up to PROVIDER_TIMEOUT), the  *)
(* waiter's deadline (WAIT_TIMEOUT) and the expiry of a key (LOCK_TTL,     *)
(* RESULT_TTL).  A long event happens only when no short step is pending   *)
(* (Quiet); short steps of different coroutines and processes, and the     *)
(* admissions, interleave freely.  lock:{t} can expire (LockExpire) once   *)
(* the adapter calls its holder has started since the SET can add up to    *)
(* LOCK_TTL; a result slot expires (ResultExpire) only after its waiter    *)
(* has stopped, RESULT_TTL being longer than WAIT_TIMEOUT.                 *)
(***************************************************************************)
EXTENDS Integers, Sequences, FiniteSets, TLC

\* ---------------------------------------------------------------- bounds
MaxJobs == 3
MaxInflight == 2

Procs == {"p1", "p2"}
Tenants == {"t1", "t2"}
JobIds == 1..MaxJobs

\* ----------------------------------------------------- program constants
\* in seconds: EX 300 of the lock, setex 300 of the result, waitForResult(jobId, 180000),
\* axios timeout: 180000
LOCK_TTL == 300
RESULT_TTL == 300
WAIT_TIMEOUT == 180
PROVIDER_TIMEOUT == 180

Providers == {"openai", "gemini"}
\* the credentials configured (getApiKey): OPENAI_API_KEY alone, or both keys
KeyConfigs == {{"openai"}, {"openai", "gemini"}}
\* what getProvider returns without an override: PRIMARY_LLM_PROVIDER || "openai"
PrimaryProviders == {"openai"}

VARIABLES
  apiKeys,      \* getApiKey: the providers whose credentials are configured
  nextJob,      \* number of the next admission (stands for Date.now()+random of jobId)
  jobs,         \* jobs[j]: the job built by POST /chat, and the process that admitted it
  queue,        \* queue[t]: the KV list queue:{t}
  lock,         \* lock[t]: the KV key lock:{t}: present?, who set it, how long ago at most
  result,       \* result[j]: the KV key result:{jobId}: its value, and the setex count
  userWorkers,  \* userWorkers[p]: the tenants with an entry in process p's registry
  worker,       \* worker[w]: the processUserQueue call spawned by admission w, while it runs
  waiter,       \* waiter[j]: the waitForResult call and the HTTP reply of admission j
  call          \* the one request or function call followed step by step, outside the engine

vars == <<apiKeys, nextJob, jobs, queue, lock, result, userWorkers, worker, waiter, call>>

NoJob == [tenant |-> "none", proc |-> "none", provider |-> "none"]
NoLock == [held |-> FALSE, owner |-> 0, age |-> 0]
NoResult == [val |-> "none", writes |-> 0]
NoWorker == [pc |-> "none", proc |-> "none", job |-> 0]
NoReply == [status |-> 0, body |-> "none"]
NoWaiter == [active |-> FALSE, gets |-> 0, dels |-> <<>>, reply |-> NoReply]

\* no request or call is followed
NoCall == [fn |-> "none"]

\* the engine after the module is loaded: nothing queued, locked, stored or running
EngineIdle ==
  /\ nextJob = 1
  /\ jobs = [j \in JobIds |-> NoJob]
  /\ queue = [t \in Tenants |-> <<>>]
  /\ lock = [t \in Tenants |-> NoLock]
  /\ result = [j \in JobIds |-> NoResult]
  /\ userWorkers = [p \in Procs |-> {}]
  /\ worker = [w \in JobIds |-> NoWorker]
  /\ waiter = [j \in JobIds |-> NoWaiter]

EngineInit ==
  /\ apiKeys \in KeyConfigs
  /\ EngineIdle

Init ==
  /\ EngineInit
  /\ call = NoCall

\* ------------------------------------------------------------- variants
\* Deviations from the code, each with the signature of the operator it stands in
\* for; a property that is to depend on that operator fails with the variant.
\* a setex that does not take effect
SetexLost(r, payload) == r
\* a cleanup script that never finds the queue empty
CleanupNever(q) == 0
\* an admission that spawns a worker without looking at the registry
ShouldSpawnAlways(p, t) == TRUE
\* a credential lookup that finds a key for every provider
KeyAlways(provider) == TRUE
\* a middleware that lets every request through
AuthAlways(serviceKey, header) == TRUE
\* a validation that accepts every body
MessagesAlways(messages) == TRUE
\* a handler that starts the classifier for every reply
TicketGateAlways(category, ticket_id) == TRUE
\* a handler that never substitutes the placeholder
ReplacedNever(endpoint, text) == FALSE
\* a handler that empties the queue it is given
QueueDropped(q) == <<>>
\* a SET that succeeds whether or not the key exists
SetAlways(l) == TRUE
\* a translation that keeps the role of the message
RoleKept(role) == role
\* a failed download of an inline image that ends the adapter call
InlineFailureThrows(c) == [c EXCEPT !.pc = "thrown"]
\* a worker that drops a dequeued job whose waiter has stopped waiting
SkipTimedOut(w, j) ==
  IF waiter[j].active
    THEN [worker EXCEPT ![w].pc = "primary", ![w].job = j]
    ELSE [worker EXCEPT ![w].pc = "blpop", ![w].job = 0]

\* --------------------------------------------------------- KV commands
\* SET key "1" EX 300 NX: truthy iff the key was absent
SetNX(l) == ~l.held

\* CLEANUP_SCRIPT: 1 (and lock deleted) iff LLEN queue = 0
CLEANUP_SCRIPT(q) == IF Len(q) = 0 THEN 1 ELSE 0

\* SETEX result:{jobId} 300 payload
Setex(r, payload) == [val |-> payload, writes |-> r.writes + 1]

\* ----------------------------------------------------------- admission
\* POST /chat, line 723: if (!userWorkers[userId])
ShouldSpawn(p, t) == t \notin userWorkers[p]

\* POST /chat from the rpush to the start of waitForResult, in process p for tenant t.
\* Processes and tenants are interchangeable: the first admission is taken to be
\* p1's for t1.
Enqueue(p, t, prov) ==
  /\ nextJob <= MaxJobs
  /\ nextJob = 1 => p = "p1" /\ t = "t1"
  /\ LET j == nextJob IN
     /\ jobs' = [jobs EXCEPT ![j] = [tenant |-> t, proc |-> p, provider |-> prov]]
     /\ queue' = [queue EXCEPT ![t] = Append(@, j)]
     /\ IF ShouldSpawn(p, t)
          THEN /\ userWorkers' = [userWorkers EXCEPT ![p] = @ \cup {t}]
               /\ worker' = [worker EXCEPT ![j] = [pc |-> "start", proc |-> p, job |-> 0]]
          ELSE UNCHANGED <<userWorkers, worker>>
     /\ waiter' = [waiter EXCEPT ![j] = [NoWaiter EXCEPT !.active = TRUE]]
     /\ nextJob' = j + 1
  /\ UNCHANGED <<apiKeys, lock, result>>

\* a request that reaches the rpush, in the engine taken alone
Admit(p, t, prov) == Enqueue(p, t, prov) /\ UNCHANGED call

\* ---------------------------------------------------------------- worker
WTenant(w) == jobs[w].tenant
WProc(w) == worker[w].proc
Live(w) == worker[w].pc # "none"
InCall(w) == worker[w].pc \in {"primary", "fallback"}

\* --------------------------------------------------------- time scales
\* a worker between two awaits of KV commands (SET NX, blpop, eval, the del of the catch)
WorkerShort(w) == worker[w].pc \in {"start", "blpop", "eval", "crash"}
\* a waiter with a get or del in flight
WaiterShort(j) ==
  \/ waiter[j].gets > 0
  \/ waiter[j].dels # <<>>
\* a waiter whose next poll (within 100 ms) finds the value
PollDue(j) == waiter[j].active /\ result[j].val # "none"
\* no short step is pending, the next poll of waiter j set aside
QuietBut(j) ==
  /\ \A w \in JobIds : ~WorkerShort(w)
  /\ \A i \in JobIds : ~WaiterShort(i)
  /\ \A i \in JobIds \ {j} : ~PollDue(i)
Quiet == QuietBut(0)

\* processUserQueue lines 564-565: acquire the lock or return
WorkerAcquire(w) ==
  /\ worker[w].pc = "start"
  /\ LET t == WTenant(w) IN
     IF SetNX(lock[t])
       THEN /\ lock' = [lock EXCEPT ![t] = [held |-> TRUE, owner |-> w, age |-> 0]]
            /\ worker' = [worker EXCEPT ![w].pc = "blpop"]
       ELSE /\ worker' = [worker EXCEPT ![w] = NoWorker]
            /\ UNCHANGED lock
  /\ UNCHANGED <<call, apiKeys, nextJob, jobs, queue, result, userWorkers, waiter>>

\* An adapter call (axios timeout: 180000) started by worker w: the lock w set can
\* since be older by up to PROVIDER_TIMEOUT seconds.
LockAfterCall(l, w) ==
  IF l.held /\ l.owner = w /\ l.age < LOCK_TTL
    THEN [l EXCEPT !.age = @ + PROVIDER_TIMEOUT]
    ELSE l

\* processUserQueue lines 588-600: the dequeued job is parsed and routeWithFallback is
\* called for it
StartJob(w, j) == [worker EXCEPT ![w].pc = "primary", ![w].job = j]

\* processUserQueue lines 570, 588-600: blpop returns the head and the primary adapter
\* is called, or blpop returns null after 1 s of an empty queue
WorkerBlpop(w) ==
  /\ worker[w].pc = "blpop"
  /\ LET t == WTenant(w) IN
     IF queue[t] # <<>>
       THEN /\ worker' = StartJob(w, Head(queue[t]))
            /\ queue' = [queue EXCEPT ![t] = Tail(@)]
            /\ lock' = [lock EXCEPT ![t] = LockAfterCall(@, w)]
       ELSE /\ worker' = [worker EXCEPT ![w].pc = "eval"]
            /\ UNCHANGED <<queue, lock>>
  /\ UNCHANGED <<call, apiKeys, nextJob, jobs, result, userWorkers, waiter>>

\* processUserQueue lines 572-586: the cleanup script and what the worker does with its answer
WorkerCleanup(w) ==
  /\ worker[w].pc = "eval"
  /\ LET t == WTenant(w)
         deleted == CLEANUP_SCRIPT(queue[t])
     IN IF deleted = 1
          THEN /\ lock' = [lock EXCEPT ![t] = NoLock]
               /\ userWorkers' = [userWorkers EXCEPT ![WProc(w)] = @ \ {t}]
               /\ worker' = [worker EXCEPT ![w] = NoWorker]
          ELSE /\ worker' = [worker EXCEPT ![w].pc = "blpop"]
               /\ UNCHANGED <<lock, userWorkers>>
  /\ UNCHANGED <<call, apiKeys, nextJob, jobs, queue, result, waiter>>

\* routeWithFallback line 488
Fallback(provider) == IF provider = "openai" THEN "gemini" ELSE "openai"

\* the worker's loop continues with the next blpop
NextBlpop(w) == [worker EXCEPT ![w].pc = "blpop", ![w].job = 0]

\* lines 593-633: the adapter in progress returns a response; the result is published
ProviderReturn(w) ==
  /\ InCall(w)
  /\ Quiet
  /\ LET j == worker[w].job IN
     result' = [result EXCEPT ![j] = Setex(@, "ok")]
  /\ worker' = NextBlpop(w)
  /\ UNCHANGED <<call, apiKeys, nextJob, jobs, queue, lock, userWorkers, waiter>>

\* routeWithFallback lines 487-500: the primary adapter throws
PrimaryThrow(w) ==
  /\ worker[w].pc = "primary"
  /\ Quiet
  /\ LET j == worker[w].job IN
     IF Fallback(jobs[j].provider) \in apiKeys
       THEN /\ worker' = [worker EXCEPT ![w].pc = "fallback"]
            /\ lock' = [lock EXCEPT ![WTenant(w)] = LockAfterCall(@, w)]
            /\ UNCHANGED result
       ELSE /\ result' = [result EXCEPT ![j] = Setex(@, "All providers failed")]
            /\ worker' = NextBlpop(w)
            /\ UNCHANGED lock
  /\ UNCHANGED <<call, apiKeys, nextJob, jobs, queue, userWorkers, waiter>>

\* lines 491-498 and 634-641: the fallback adapter throws; its error is the job's error
FallbackThrow(w) ==
  /\ worker[w].pc = "fallback"
  /\ Quiet
  /\ LET j == worker[w].job IN
     result' = [result EXCEPT ![j] = Setex(@, "ProviderError")]
  /\ worker' = NextBlpop(w)
  /\ UNCHANGED <<call, apiKeys, nextJob, jobs, queue, lock, userWorkers, waiter>>

\* line 564, EX 300: the lock's TTL elapses
LockExpire(t) ==
  /\ lock[t].held
  /\ lock[t].age >= LOCK_TTL
  /\ Quiet
  /\ lock' = [lock EXCEPT ![t] = NoLock]
  /\ UNCHANGED <<call, apiKeys, nextJob, jobs, queue, result, userWorkers, worker, waiter>>

\* ---------------------------------------------------------------- waiter
\* JSON.parse(result) and lines 729-739: the reply for a decoded payload
ReplyFor(payload) ==
  IF payload = "ok" THEN [status |-> 200, body |-> "ok"]
  ELSE [status |-> 500, body |-> payload]

\* lines 740-745: the reply when waitForResult rejects
TimeoutReply == [status |-> 500, body |-> "Timeout"]

\* a promise settles once, and the handler replies once: a later resolve changes nothing
Settle(wt, reply) == IF wt.reply = NoReply THEN reply ELSE wt.reply

\* waitForResult lines 653-666.  The interval fires every 100 ms whether or not the
\* callbacks of earlier firings have returned from their await of get; a callback that
\* finds a value sends a del, and every get in flight then was sent before that del and
\* is answered before it.  A get answered with null changes nothing, so the model keeps
\* only the gets that matter: in PollHit, `n` is the number of further callbacks whose
\* get, in flight when the first one finds the value, finds it too; in PollTimeout, `k`
\* is the number of callbacks still awaiting their get when the deadline is found
\* exceeded.  Both are 0 when every get is answered within 100 ms.

\* lines 654-658: a firing finds the deadline exceeded; the deadline may pass just
\* when the result has been published and not yet been polled
PollTimeout(j, k) ==
  /\ waiter[j].active
  /\ QuietBut(j)
  /\ waiter' = [waiter EXCEPT ![j].active = FALSE, ![j].gets = k,
                  ![j].reply = Settle(waiter[j], TimeoutReply)]
  /\ UNCHANGED <<call, apiKeys, nextJob, jobs, queue, lock, result, userWorkers, worker>>

\* lines 661-663: the callbacks of `n` gets that returned `val`: each clears the
\* interval and sends its del
OnGet(wt, val, n) ==
  [wt EXCEPT !.active = FALSE,
             !.dels = @ \o [i \in 1..n |-> val]]

\* lines 660-663: a firing before the deadline whose get finds the value
PollHit(j, n) ==
  /\ waiter[j].active
  /\ result[j].val # "none"
  /\ waiter' = [waiter EXCEPT ![j] = OnGet(@, result[j].val, n + 1)]
  /\ UNCHANGED <<call, apiKeys, nextJob, jobs, queue, lock, result, userWorkers, worker>>

\* lines 660-663: a get still in flight at the deadline is answered
GetReply(j) ==
  /\ ~waiter[j].active
  /\ waiter[j].gets > 0
  /\ waiter' = [waiter EXCEPT ![j] =
                  [(IF result[j].val # "none" THEN OnGet(@, result[j].val, 1) ELSE @)
                     EXCEPT !.gets = @ - 1]]
  /\ UNCHANGED <<call, apiKeys, nextJob, jobs, queue, lock, result, userWorkers, worker>>

\* lines 663-664 and 729-739: the del is answered; resolve with the decoded payload
DelReply(j) ==
  /\ waiter[j].dels # <<>>
  /\ result' = [result EXCEPT ![j].val = "none"]
  /\ waiter' = [waiter EXCEPT ![j].dels = Tail(@),
                  ![j].reply = Settle(waiter[j], ReplyFor(Head(waiter[j].dels)))]
  /\ UNCHANGED <<call, apiKeys, nextJob, jobs, queue, lock, userWorkers, worker>>

\* line 630, setex 300: the slot's TTL elapses; RESULT_TTL being longer than
\* WAIT_TIMEOUT, not before the slot's waiter has stopped
ResultExpire(j) ==
  /\ result[j].val # "none"
  /\ Quiet
  /\ RESULT_TTL > WAIT_TIMEOUT =>
       ~waiter[j].active /\ waiter[j].gets = 0 /\ waiter[j].dels = <<>>
  /\ result' = [result EXCEPT ![j].val = "none"]
  /\ UNCHANGED <<call, apiKeys, nextJob, jobs, queue, lock, userWorkers, worker, waiter>>

\* the steps of the workers, of the waiters and of the key expiry
Serve ==
  \/ \E w \in JobIds : WorkerAcquire(w)
  \/ \E w \in JobIds : WorkerBlpop(w)
  \/ \E w \in JobIds : WorkerCleanup(w)
  \/ \E w \in JobIds : ProviderReturn(w)
  \/ \E w \in JobIds : PrimaryThrow(w)
  \/ \E w \in JobIds : FallbackThrow(w)
  \/ \E t \in Tenants : LockExpire(t)
  \/ \E j \in JobIds, k \in 0..(MaxInflight - 1) : PollTimeout(j, k)
  \/ \E j \in JobIds, n \in 0..(MaxInflight - 1) : PollHit(j, n)
  \/ \E j \in JobIds : GetReply(j)
  \/ \E j \in JobIds : DelReply(j)
  \/ \E j \in JobIds : ResultExpire(j)

Next ==
  \/ \E p \in Procs, t \in Tenants, prov \in PrimaryProviders : Admit(p, t, prov)
  \/ Serve

Spec == Init /\ [][Next]_vars

\* ------------------------------------------------------------- scheduling
\* With the KV store available every command is answered, an adapter call returns or
\* throws within its axios timeout, the interval of waitForResult keeps firing, and a
\* key with a TTL is removed when the TTL has elapsed.  Nothing obliges a client to
\* send a request: admissions are not fair.
WorkerStep(w) ==
  \/ WorkerAcquire(w)
  \/ WorkerBlpop(w)
  \/ WorkerCleanup(w)
  \/ ProviderReturn(w)
  \/ PrimaryThrow(w)
  \/ FallbackThrow(w)
WaiterStep(j) ==
  \/ \E k \in 0..(MaxInflight - 1) : PollTimeout(j, k)
  \/ \E n \in 0..(MaxInflight - 1) : PollHit(j, n)
  \/ GetReply(j)
  \/ DelReply(j)
Fairness ==
  /\ \A w \in JobIds : WF_vars(WorkerStep(w))
  /\ \A j \in JobIds : WF_vars(WaiterStep(j))
  /\ \A t \in Tenants : WF_vars(LockExpire(t))
  /\ \A j \in JobIds : WF_vars(ResultExpire(j))
\* Tenants share no key and no registry entry, and a lasso search over two of them is
\* four times as long: the fair behaviours are those of requests for one tenant.
FairNext ==
  \/ \E p \in Procs, prov \in PrimaryProviders : Admit(p, "t1", prov)
  \/ Serve
FairSpec == Init /\ [][FairNext]_vars /\ Fairness

\* ============================================================ properties
\* worker w is inside the while loop of processUserQueue: its SET NX succeeded
InLoop(w) == worker[w].pc \in {"blpop", "eval", "primary", "fallback"}
Admitted(j) == jobs[j].tenant # "none"
InQueue(j) == \E i \in 1..Len(queue[jobs[j].tenant]) : queue[jobs[j].tenant][i] = j
Dequeued(j) == Admitted(j) /\ ~InQueue(j)
Written(j) == result[j].writes > 0
\* j1 was pushed to the queue of its tenant before j2
PushedBefore(j1, j2) ==
  /\ j1 < j2
  /\ Admitted(j2)
  /\ jobs[j1].tenant = jobs[j2].tenant
LoopWorkers(t) == {w \in JobIds : InLoop(w) /\ WTenant(w) = t}

\* ---------------------------------------------------------------- faults
\* lock:T is set and the worker that set it is not running any more
Orphaned(t) == lock[t].held /\ ~InLoop(lock[t].owner)

\* Process p is killed while one of its workers holds a lock, and is started again:
\* its coroutines (workers, waiters and their connections) are gone and its registry
\* is empty; the KV store keeps the queue, the results and the lock, which from now on
\* nothing keeps from reaching its TTL.  One death is followed (call records it).
Die(p) ==
  /\ call = NoCall
  /\ \E w \in JobIds : InLoop(w) /\ WProc(w) = p /\ lock[WTenant(w)].owner = w
  /\ call' = [fn |-> "die", proc |-> p]
  /\ worker' = [w \in JobIds |-> IF WProc(w) = p THEN NoWorker ELSE worker[w]]
  /\ userWorkers' = [userWorkers EXCEPT ![p] = {}]
  /\ waiter' = [j \in JobIds |->
                  IF jobs[j].proc = p
                    THEN [waiter[j] EXCEPT !.active = FALSE, !.gets = 0, !.dels = <<>>]
                    ELSE waiter[j]]
  /\ lock' = [t \in Tenants |->
                IF lock[t].held /\ WProc(lock[t].owner) = p
                  THEN [lock[t] EXCEPT !.age = LOCK_TTL]
                  ELSE lock[t]]
  /\ UNCHANGED <<apiKeys, nextJob, jobs, queue, result>>

\* the fair behaviours with process deaths, of requests for one tenant
FaultNext ==
  \/ \E p \in Procs, prov \in PrimaryProviders : Admit(p, "t1", prov)
  \/ Serve
  \/ \E p \in Procs : Die(p)
FaultSpec == Init /\ [][FaultNext]_vars /\ Fairness

\* ------------------------------------------------------------ KV errors
\* A command on redisClient or redisBlocking can be answered with an error (the store
\* refuses writes, the connection is lost): the await throws.  call counts the errors.
MaxFaults == 1
KvError == "KvError"
NoFaults == [fn |-> "kv", faults |-> 0]
CrashInit == EngineInit /\ call = NoFaults
CanFail == call.fn = "kv" /\ call.faults < MaxFaults
OneMoreFault == [call EXCEPT !.faults = @ + 1]

\* lines 564, 570, 573 and 643-645: SET NX, blpop or eval throws; the error is caught by
\* the outer catch, which sends the del of lock:{tenant}
KvCommandFails(w) ==
  /\ CanFail
  /\ worker[w].pc \in {"start", "blpop", "eval"}
  /\ worker' = [worker EXCEPT ![w].pc = "crash"]
  /\ call' = OneMoreFault
  /\ UNCHANGED <<apiKeys, nextJob, jobs, queue, lock, result, userWorkers, waiter>>

\* lines 628-641: the adapter call has settled and the setex that publishes the result
\* throws.  If it was the one of the try block, the catch sends the failure payload, and
\* that setex succeeds or throws too (escapes); if it was the one of the catch block,
\* the error leaves the per-job try/catch at once.
ResultWriteFails(w, escapes) ==
  /\ CanFail
  /\ InCall(w)
  /\ Quiet
  /\ call' = OneMoreFault
  /\ IF escapes
       THEN /\ worker' = [worker EXCEPT ![w].pc = "crash"]
            /\ UNCHANGED result
       ELSE /\ result' = [result EXCEPT ![worker[w].job] = Setex(@, KvError)]
            /\ worker' = NextBlpop(w)
  /\ UNCHANGED <<apiKeys, nextJob, jobs, queue, lock, userWorkers, waiter>>

\* lines 645-646: the del is answered (lock:{tenant} is deleted, whoever set it) or
\* fails and is ignored; then the registry entry is removed and the worker ends
WorkerCrashExit(w, deleted) ==
  /\ worker[w].pc = "crash"
  /\ lock' = IF deleted THEN [lock EXCEPT ![WTenant(w)] = NoLock] ELSE lock
  /\ userWorkers' = [userWorkers EXCEPT ![WProc(w)] = @ \ {WTenant(w)}]
  /\ worker' = [worker EXCEPT ![w] = NoWorker]
  /\ UNCHANGED <<call, apiKeys, nextJob, jobs, queue, result, waiter>>

\* the behaviours with KV errors, of requests for one tenant
CrashNext ==
  \/ \E p \in Procs, prov \in PrimaryProviders : Admit(p, "t1", prov)
  \/ Serve
  \/ \E w \in JobIds : KvCommandFails(w)
  \/ \E w \in JobIds, escapes \in BOOLEAN : ResultWriteFails(w, escapes)
  \/ \E w \in JobIds, deleted \in BOOLEAN : WorkerCrashExit(w, deleted)
CrashSpec == CrashInit /\ [][CrashNext]_vars

\* ------------------------------------------------------- engine claims

\* C1 (mutual exclusion): in every reachable state, for every tenant T at most one
\* worker, in whatever process, has acquired lock:T and is in the loop that performs
\* blpop on queue:T.
C1_MutualExclusion ==
  \A t \in Tenants : Cardinality(LoopWorkers(t)) <= 1

\* C2 (per-tenant FIFO): if J1 was pushed to queue:T before J2, then J2 is not dequeued
\* while J1 is still queued, and result:J2 is not written while result:J1 has not been.
C2_PerTenantFifo ==
  \A j1, j2 \in JobIds :
    PushedBefore(j1, j2) =>
      /\ Dequeued(j2) => Dequeued(j1)
      /\ Written(j2) => Written(j1)

\* the dequeue half of C2 alone
DequeueOrder ==
  \A j1, j2 \in JobIds :
    PushedBefore(j1, j2) /\ Dequeued(j2) => Dequeued(j1)

\* C4 (shutdown/push race): however a worker's idle shutdown interleaves with an
\* admission for the same tenant, a job is never left in queue:T while no
\* processUserQueue call for T is running or about to run in any process.
C4_NoStrandedJob ==
  \A t \in Tenants :
    queue[t] # <<>> => \E w \in JobIds : Live(w) /\ WTenant(w) = t

\* the second half of C4 alone: a worker leaves the loop only on a cleanup script that
\* found the queue empty (and then the lock is gone and the registry entry removed),
\* and goes back to blpop when the script returned 0
ExitOnlyOnEmptyQueue ==
  [][\A w \in JobIds :
       worker[w].pc = "eval" /\ worker'[w].pc # "eval" =>
         IF queue[WTenant(w)] = <<>>
           THEN /\ ~Live(w)'
                /\ ~lock'[WTenant(w)].held
                /\ WTenant(w) \notin userWorkers'[WProc(w)]
           ELSE worker'[w].pc = "blpop" /\ lock' = lock]_vars

\* C6 (delivery): when a poll of waitForResult has found a value in result:J (its del
\* is on its way), the reply of the /chat handler for J, once sent, is the one for that
\* payload: 200 for a success payload, 500 with its error otherwise.
C6_FoundValueIsReplied ==
  \A j \in JobIds :
    waiter[j].dels # <<>> =>
      waiter[j].reply \in {NoReply, ReplyFor(Head(waiter[j].dels))}

\* C7 (timeout): a waiter that replied 500 "Timeout" sends no del for result:J, so a
\* result published around or after the deadline stays in the slot until its TTL.
C7_TimedOutWaiterKeepsSlot ==
  \A j \in JobIds :
    waiter[j].reply = TimeoutReply => waiter[j].dels = <<>>

\* C8 (result idempotence): every value the waiter read from result:J is the payload
\* that was written, and at most one del of result:J is ever issued, also when poll
\* ticks overlap.
C8_OneDelete ==
  \A j \in JobIds :
    /\ \A i \in 1..Len(waiter[j].dels) : waiter[j].dels[i] \in {"ok", "All providers failed", "ProviderError"}
    /\ Len(waiter[j].dels) <= 1

\* job j has been popped and its routeWithFallback call has not yet settled
Processing(j) == \E w \in JobIds : InCall(w) /\ worker[w].job = j
WaiterStopped(j) ==
  /\ ~waiter[j].active
  /\ waiter[j].gets = 0
  /\ waiter[j].dels = <<>>

LocalWorkers(p, t) == {w \in JobIds : Live(w) /\ WProc(w) = p /\ WTenant(w) = t}

\* C10 (local registry): in every process and for every tenant at most one
\* processUserQueue call is running at any time, it has its registry entry, and an
\* admission that finds the entry does not spawn.
C10_OneLocalWorker ==
  /\ \A p \in Procs, t \in Tenants :
       /\ Cardinality(LocalWorkers(p, t)) <= 1
       /\ LocalWorkers(p, t) # {} => t \in userWorkers[p]
  /\ \A j1, j2 \in JobIds :
       /\ PushedBefore(j1, j2)
       /\ jobs[j1].proc = jobs[j2].proc
       /\ Live(j1)
       => worker[j2] = NoWorker

\* two admissions for one tenant in one process while the worker the first one
\* spawned is running: the second one spawned nothing
C10_Witness ==
  \E j1, j2 \in JobIds :
    /\ PushedBefore(j1, j2)
    /\ jobs[j1].proc = jobs[j2].proc
    /\ InLoop(j1)
    /\ worker[j2] = NoWorker
    /\ InQueue(j2)

\* C3 (no lost job): with the KV store available, adapter calls that settle and no
\* crash, every job admitted by POST /chat eventually has a result written to
\* result:J (and so has been popped), and its waiter eventually settles.
C3_EveryJobServed ==
  \A j \in JobIds :
    Admitted(j) ~> (Written(j) /\ waiter[j].reply # NoReply)

\* the waiter half of C3 alone: every admitted request is eventually replied to
EveryWaiterSettles ==
  \A j \in JobIds : Admitted(j) ~> (waiter[j].reply # NoReply)

\* worker w is between two jobs and the queue of its tenant is empty
Idle(w) ==
  /\ worker[w].pc \in {"blpop", "eval"}
  /\ queue[WTenant(w)] = <<>>

\* C9 (idle cleanup terminates): a worker of tenant T that is between two jobs with
\* queue:T empty eventually returns unless a new job is pushed to queue:T, and the
\* step by which a worker leaves the loop leaves lock:T absent and the worker's
\* registry entry removed.
C9_IdleWorkerExits ==
  /\ \A w \in JobIds : Idle(w) ~> (~Live(w) \/ queue[WTenant(w)] # <<>>)
  /\ [][\A w \in JobIds :
          InLoop(w) /\ ~Live(w)' =>
            /\ queue[WTenant(w)] = <<>>
            /\ ~lock'[WTenant(w)].held
            /\ WTenant(w) \notin userWorkers'[WProc(w)]]_vars

\* the only job admitted has been processed and the worker it spawned has returned,
\* with the lock gone and the registry entry removed
C9_Witness ==
  /\ nextJob = 2
  /\ Written(1)
  /\ ~Live(1)
  /\ queue[jobs[1].tenant] = <<>>
  /\ ~lock[jobs[1].tenant].held
  /\ jobs[1].tenant \notin userWorkers[jobs[1].proc]

\* C11 (lazy lock re-acquisition): when the holder of lock:T has died without
\* releasing it, every job admitted for T from then on eventually has its result
\* written: the lock's TTL elapses and the next worker for T takes the lock and
\* serves the queue.
C11_JobsAfterDeathServed ==
  \A j \in JobIds :
    [](Orphaned("t1") /\ nextJob = j => [](Admitted(j) => <>Written(j)))

\* C21 (TTL covers a job): the lock's TTL is at least the time a worker can spend on
\* one job, every provider call of that job counted, so lock:T never expires while
\* the worker that set it is still executing a job.
C21_TtlCoversJob ==
  [][\A t \in Tenants :
       lock[t].held /\ ~lock'[t].held /\ worker' = worker
         => ~InCall(lock[t].owner)]_vars

\* C24 (failed acquisition): a worker whose SET NX on lock:T does not succeed returns
\* at once: it performs no blpop, runs no cleanup script, writes no result and deletes
\* no lock; queue, lock and result slots are left unchanged.
C24_FailedAcquireReturns ==
  [][\A w \in JobIds :
       /\ worker[w].pc = "start"
       /\ lock[WTenant(w)].held
       /\ worker'[w] # worker[w]
       => /\ ~Live(w)'
          /\ queue' = queue
          /\ lock' = lock
          /\ result' = result]_vars

\* a worker has returned from a failed acquisition: its process has the registry entry
\* and no worker for the tenant, whose lock another worker holds
C24_Witness ==
  \E p \in Procs, t \in Tenants :
    /\ t \in userWorkers[p]
    /\ LocalWorkers(p, t) = {}
    /\ lock[t].held
    /\ InLoop(lock[t].owner)

\* C25 (per-job error isolation): no error raised while a dequeued job is handled
\* (router failure, response assembly, the result write itself) leaves the per-job
\* try/catch: the step that ends the handling of the job writes its result, leaves
\* lock and registry as they are, and takes the worker to the next blpop.
C25_ErrorIsolation ==
  [][\A w \in JobIds :
       InCall(w) /\ ~InCall(w)' =>
         /\ worker'[w].pc = "blpop"
         /\ result'[worker[w].job].writes = result[worker[w].job].writes + 1
         /\ lock' = lock
         /\ userWorkers' = userWorkers]_vars

\* a worker of process p for tenant t is in the outer catch, its del on its way
Crashing(p, t) ==
  \E w \in JobIds : worker[w].pc = "crash" /\ WProc(w) = p /\ WTenant(w) = t
\* the step is an admission by process p for tenant t
Admission(p, t) ==
  /\ nextJob' = nextJob + 1
  /\ nextJob <= MaxJobs
  /\ jobs'[nextJob].proc = p
  /\ jobs'[nextJob].tenant = t

\* C26 (crash path): a worker that an error takes out of the loop deletes lock:T as far
\* as it can, removes its registry entry and ends, so that the registry has no entry
\* for T afterwards; and an admission for T that arrives while the crash is being
\* handled is not left without a worker.
C26_CrashPath ==
  /\ [][\A w \in JobIds :
          worker[w].pc = "crash" /\ worker'[w] # worker[w] =>
            /\ ~Live(w)'
            /\ WTenant(w) \notin userWorkers'[WProc(w)]]_vars
  /\ [][\A p \in Procs, t \in Tenants :
          Admission(p, t) /\ Crashing(p, t) =>
            \E w \in JobIds : worker'[w].pc \notin {"none", "crash"} /\ jobs'[w].tenant = t]_vars

\* C27 (lock lifetime): from its acquisition until the cleanup script or the crash
\* path deletes it, lock:T is present in every state in which the worker that set it
\* is in the dequeue/process loop, however many jobs it processes back to back.
C27_LockLifetime ==
  \A w \in JobIds : InLoop(w) => lock[WTenant(w)].held

\* C33 (registry liveness): in every reachable state, if the worker registry of a
\* process has an entry for tenant T, a worker for T is running in that process (between
\* its start and the removal of the entry); a processUserQueue call that returns
\* because the lock was not acquired leaves no entry behind.
C33_RegistryLiveness ==
  \A p \in Procs, t \in Tenants :
    t \in userWorkers[p] => \E w \in JobIds : Live(w) /\ WProc(w) = p /\ WTenant(w) = t

\* C34 (lock ownership): lock:T is deleted only by the worker whose acquisition created
\* the stored lock; neither the cleanup script of a worker whose lock has expired nor
\* the crash path deletes a lock that another worker has since acquired.
C34_LockOwnership ==
  [][\A t \in Tenants :
       lock[t].held /\ ~lock'[t].held /\ worker' # worker
         => worker'[lock[t].owner] # worker[lock[t].owner]]_vars

\* C37 (no cancellation): the worker executes every job it dequeues and publishes its
\* result whether or not the waiter of the job has already timed out; the waiter is
\* armed at admission, so its deadline runs while the job is queued behind earlier ones.
C37_NoCancellation ==
  /\ [][\A t \in Tenants :
          Len(queue'[t]) < Len(queue[t]) =>
            \E w \in JobIds :
              /\ worker[w].pc = "blpop"
              /\ worker'[w].pc = "primary"
              /\ worker'[w].job = Head(queue[t])]_vars
  /\ [][\A w \in JobIds :
          InCall(w) /\ ~InCall(w)' =>
            result'[worker[w].job].writes > result[worker[w].job].writes]_vars
  /\ [][nextJob' # nextJob => waiter'[nextJob].active]_vars
\* one job is still queued and its waiter has replied Timeout, and the result of another
\* job, whose waiter has replied Timeout too, has been published and is left unread
C37_Witness ==
  \E j1, j2 \in JobIds :
    /\ Admitted(j1)
    /\ InQueue(j1)
    /\ waiter[j1].reply = TimeoutReply
    /\ Written(j2)
    /\ result[j2].val # "none"
    /\ waiter[j2].reply = TimeoutReply

\* ======================================================= one job, followed
\* The body of the worker's loop for one job (processUserQueue lines 588-641 with
\* routeWithFallback) and the reply of its /chat handler, step by step.  `call` is the
\* job: what the request gave (provider, files), where the worker is (pc), the adapters
\* invoked so far, the adapter calls that threw, and what was stored and replied.
JobProviders == {"openai", "gemini", "other"}
\* req.body.files: null, [], or an array with an image
JobFiles == {"null", "empty", "image"}
\* what an adapter returns: a text, tool calls, or (Gemini) the safety placeholder
Responses == {"text", "tool_calls", "blocked"}
\* error.message of a failed axios call
AdapterErrors == {"timeout of 180000ms exceeded", "Request failed with status code 500"}
AllProvidersFailed == "All providers failed"
\* the TypeError of job.files.length (line 618) when files is null
FilesTypeError == "Cannot read properties of null (reading 'length')"

\* getApiKey: truthy iff the provider's key is configured
getApiKey(provider) == provider \in apiKeys

\* routeWithFallback lines 484-486 and 490-498: the adapter called for a provider
AdapterOf(provider) == IF provider = "gemini" THEN "handleGemini" ELSE "handleOpenAI"

\* calculateTokenCost lines 150-154: USD per 10^9 tokens
Pricing ==
  [openai |-> [input |-> 150, output |-> 600],
   gemini |-> [input |-> 75, output |-> 300]]
Rates(provider) == IF provider \in DOMAIN Pricing THEN Pricing[provider] ELSE Pricing.gemini
NoMetadata == [provider |-> "none", rates |-> [input |-> 0, output |-> 0]]
\* lines 602-609, 613, 623: provider and cost rates of the metadata
MetadataOf(job) == [provider |-> job.provider, rates |-> Rates(job.provider)]

JobInit ==
  /\ EngineIdle
  /\ apiKeys \in SUBSET Providers
  /\ \E provider \in JobProviders, files \in JobFiles :
       call = [fn |-> "job", provider |-> provider, files |-> files, pc |-> "primary",
               invoked |-> <<AdapterOf(provider)>>, throws |-> <<>>,
               response |-> "none", metadata |-> NoMetadata, stored |-> "none",
               reply |-> NoReply]

InJob(pcs) == call.fn = "job" /\ call.pc \in pcs

\* lines 484-486, 490-498: the adapter in progress returns
RouteReturn(kind) ==
  /\ InJob({"primary", "fallback"})
  /\ kind = "blocked" => call.invoked[Len(call.invoked)] = "handleGemini"
  /\ call' = [call EXCEPT !.pc = "returned", !.response = kind]
  /\ UNCHANGED <<apiKeys, nextJob, jobs, queue, lock, result, userWorkers, worker, waiter>>

\* lines 487-500: the primary adapter throws
RoutePrimaryThrow(err) ==
  /\ InJob({"primary"})
  /\ call' =
       IF getApiKey(Fallback(call.provider))
         THEN [call EXCEPT !.pc = "fallback", !.throws = Append(@, err),
                           !.invoked = Append(@, AdapterOf(Fallback(call.provider)))]
         ELSE [call EXCEPT !.pc = "thrown", !.throws = Append(@, err),
                           !.response = AllProvidersFailed]
  /\ UNCHANGED <<apiKeys, nextJob, jobs, queue, lock, result, userWorkers, worker, waiter>>

\* lines 490-498: the fallback adapter throws, inside the catch block: its error leaves
\* routeWithFallback
RouteFallbackThrow(err) ==
  /\ InJob({"fallback"})
  /\ call' = [call EXCEPT !.pc = "thrown", !.throws = Append(@, err), !.response = err]
  /\ UNCHANGED <<apiKeys, nextJob, jobs, queue, lock, result, userWorkers, worker, waiter>>

\* lines 602-633: metadata is built and the success payload stored; job.files.length
\* throws when files is null, and the catch of line 634 stores that error
PublishSuccess ==
  /\ InJob({"returned"})
  /\ call' = IF call.files = "null"
                THEN [call EXCEPT !.pc = "stored", !.stored = FilesTypeError]
                ELSE [call EXCEPT !.pc = "stored", !.stored = "ok",
                                  !.metadata = MetadataOf(call)]
  /\ UNCHANGED <<apiKeys, nextJob, jobs, queue, lock, result, userWorkers, worker, waiter>>

\* lines 634-641: the error of routeWithFallback is stored
PublishFailure ==
  /\ InJob({"thrown"})
  /\ call' = [call EXCEPT !.pc = "stored", !.stored = call.response]
  /\ UNCHANGED <<apiKeys, nextJob, jobs, queue, lock, result, userWorkers, worker, waiter>>

\* lines 727-739: the waiter returns the stored payload and the handler replies
HandlerReply ==
  /\ InJob({"stored"})
  /\ call' = [call EXCEPT !.pc = "replied", !.reply = ReplyFor(call.stored)]
  /\ UNCHANGED <<apiKeys, nextJob, jobs, queue, lock, result, userWorkers, worker, waiter>>

JobNext ==
  \/ \E kind \in Responses : RouteReturn(kind)
  \/ \E err \in AdapterErrors : RoutePrimaryThrow(err)
  \/ \E err \in AdapterErrors : RouteFallbackThrow(err)
  \/ PublishSuccess
  \/ PublishFailure
  \/ HandlerReply
JobSpec == JobInit /\ [][JobNext]_vars

\* routeWithFallback has returned or thrown
RouteSettled == InJob({"returned", "thrown", "stored", "replied"})

\* C12 (fallback law): the primary adapter is invoked first and once; a second
\* invocation happens only after the primary threw and the alternative provider has
\* credentials, and it is one invocation of that provider's adapter; once
\* routeWithFallback has settled, the alternative was invoked exactly once if the
\* primary threw and the alternative has credentials, and never otherwise; no job has
\* more than two invocations.
C12_FallbackLaw ==
  call.fn = "job" =>
    /\ Len(call.invoked) \in {1, 2}
    /\ call.invoked[1] = AdapterOf(call.provider)
    /\ Len(call.invoked) = 2 =>
         /\ Len(call.throws) >= 1
         /\ Fallback(call.provider) \in apiKeys
         /\ call.invoked[2] = AdapterOf(Fallback(call.provider))
    /\ RouteSettled =>
         Len(call.invoked) =
           IF Len(call.throws) >= 1 /\ Fallback(call.provider) \in apiKeys THEN 2 ELSE 1

\* the primary threw, the alternative had credentials and was invoked once, and returned
C12_Witness ==
  /\ InJob({"returned"})
  /\ Len(call.throws) = 1
  /\ call.invoked = <<"handleOpenAI", "handleGemini">>

\* C13 (AllProvidersFailed): when the primary adapter threw and the alternative has no
\* credentials or threw too, the error stored for the job and replied with HTTP 500 is
\* "All providers failed".
C13_AllProvidersFailed ==
  /\ InJob({"stored", "replied"})
  /\ Len(call.throws) >= 1
  /\ Fallback(call.provider) \notin apiKeys \/ Len(call.throws) = 2
  => /\ call.stored = AllProvidersFailed
     /\ call.pc = "replied" => call.reply = [status |-> 500, body |-> AllProvidersFailed]

\* C17 (Gemini safety block): when Gemini's reply has no content or no parts, the
\* adapter returns the placeholder response without throwing, no further adapter is
\* invoked, and the job is stored with success: true.
C17_GeminiSafetyBlock ==
  call.fn = "job" /\ call.response = "blocked" =>
    /\ call.invoked[Len(call.invoked)] = "handleGemini"
    /\ Len(call.throws) = Len(call.invoked) - 1
    /\ call.pc \in {"stored", "replied"} => call.stored = "ok"

\* C28 (fallback differs from primary): for every primary provider value that
\* routeWithFallback can receive, the adapter invoked on fallback is different from
\* the adapter invoked as primary, and it is invoked only if credentials for it exist.
C28_FallbackDiffers ==
  call.fn = "job" /\ Len(call.invoked) >= 2 =>
    /\ call.invoked[2] # call.invoked[1]
    /\ \E provider \in apiKeys : call.invoked[2] = AdapterOf(provider)

\* C36 (success is not downgraded): whenever routeWithFallback returns a response for
\* a job, the result stored for the job is the success payload; a failure payload is
\* stored only when every provider that was attempted failed, whatever the files field
\* of the accepted body.
C36_SuccessNotDowngraded ==
  InJob({"stored", "replied"}) =>
    /\ call.response \in Responses => call.stored = "ok"
    /\ call.stored # "ok" => Len(call.throws) = Len(call.invoked)

\* the provider whose adapter was invoked last
ProducedBy ==
  IF call.invoked[Len(call.invoked)] = "handleGemini" THEN "gemini" ELSE "openai"

\* C39 (metadata attribution): in the final response of a job, metadata.provider and
\* the rates used for metadata.cost_usd are those of the provider that produced the
\* response, also when the response came from the fallback provider.
C39_MetadataAttribution ==
  InJob({"stored", "replied"}) /\ call.stored = "ok" =>
    /\ call.metadata.provider = ProducedBy
    /\ call.metadata.rates = Pricing[ProducedBy]

\* ============================================================ getProvider
\* JavaScript values are modelled by name: "absent" stands for undefined or null (a
\* field the request does not have, a variable the environment does not set).
\* req.body.provider: absent, the empty string, a configured name, a name that is no
\* provider, and a name that is no provider but a member every object inherits
\* (Object.prototype.constructor), which API_CONFIGS[requested] finds.
Requested == {"absent", "", "openai", "gemini", "claude", "constructor"}
InheritedKeys == {"constructor"}
\* process.env.ALLOW_PROVIDER_OVERRIDE
OverrideFlags == {"absent", "true", "TRUE", "1", "false"}
\* process.env.PRIMARY_LLM_PROVIDER
PrimarySettings == {"absent", "", "openai", "gemini"}

\* the truthiness of a string or absent value
Truthy(v) == v \notin {"absent", ""}

\* API_CONFIGS[requested] is truthy: an own key, or a member found on the prototype
ConfigLookup(requested) == requested \in Providers \cup InheritedKeys

\* getProvider lines 115-123
getProvider(requested, override, primary) ==
  IF Truthy(requested) /\ override = "true" /\ ConfigLookup(requested)
    THEN requested
    ELSE IF Truthy(primary) THEN primary ELSE "openai"

ProviderInit ==
  /\ EngineInit
  /\ \E requested \in Requested, override \in OverrideFlags, primary \in PrimarySettings :
       call = [fn |-> "getProvider", requested |-> requested, override |-> override,
               primary |-> primary, pc |-> "called", out |-> "none"]

\* line 704: const provider = getProvider(reqProvider)
GetProviderReturn ==
  /\ call.fn = "getProvider"
  /\ call.pc = "called"
  /\ call' = [call EXCEPT !.pc = "returned",
                          !.out = getProvider(call.requested, call.override, call.primary)]
  /\ UNCHANGED <<apiKeys, nextJob, jobs, queue, lock, result, userWorkers, worker, waiter>>

ProviderNext == GetProviderReturn
ProviderSpec == ProviderInit /\ [][ProviderNext]_vars

\* C14 (provider selection): getProvider returns the requested provider iff the
\* request names one, ALLOW_PROVIDER_OVERRIDE is "true" and that provider is
\* configured; in every other case it returns PRIMARY_LLM_PROVIDER, or "openai" when
\* that is unset.
C14_ProviderSelection ==
  call.fn = "getProvider" /\ call.pc = "returned" =>
    call.out =
      IF /\ Truthy(call.requested)
         /\ call.override = "true"
         /\ call.requested \in Providers
        THEN call.requested
        ELSE IF Truthy(call.primary) THEN call.primary ELSE "openai"

\* =================================================== POST /chat, up to the rpush
\* One request at a time is followed from its arrival to the rpush: the
\* authenticate middleware, the validation of the body, the admission.
ServiceKeys == {"absent", "", "k1"}
ServiceHeaders == {"absent", "", "k1", "k2"}
MessagesFields == {"absent", "null", "string", "object", "empty_array", "array"}
Unauthorized == [status |-> 401, body |-> "Unauthorized"]
MissingMessages == [status |-> 400, body |-> "Missing messages array"]

\* authenticate lines 89-96: does the middleware call next()
Authenticated(serviceKey, header) == ~Truthy(serviceKey) \/ header = serviceKey

\* lines 699-700: !(!messages || !Array.isArray(messages))
ValidMessages(messages) == messages \in {"empty_array", "array"}

GateInit ==
  /\ EngineInit
  /\ \E serviceKey \in ServiceKeys :
       call = [fn |-> "chat", serviceKey |-> serviceKey, pc |-> "idle",
               proc |-> "none", tenant |-> "none",
               header |-> "absent", messages |-> "absent", reply |-> NoReply]

\* a POST /chat arrives at process p for tenant t
ChatArrives(p, t, header, messages) ==
  /\ call.fn = "chat"
  /\ call.pc \in {"idle", "done"}
  /\ call' = [call EXCEPT !.pc = "authenticate", !.proc = p, !.tenant = t,
                          !.header = header, !.messages = messages,
                          !.reply = NoReply]
  /\ UNCHANGED <<apiKeys, nextJob, jobs, queue, lock, result, userWorkers, worker, waiter>>

\* authenticate lines 89-96
Authenticate ==
  /\ call.fn = "chat"
  /\ call.pc = "authenticate"
  /\ call' = IF Authenticated(call.serviceKey, call.header)
               THEN [call EXCEPT !.pc = "handler"]
               ELSE [call EXCEPT !.pc = "done", !.reply = Unauthorized]
  /\ UNCHANGED <<apiKeys, nextJob, jobs, queue, lock, result, userWorkers, worker, waiter>>

\* lines 686-700: the body is destructured and messages is checked
Validate ==
  /\ call.fn = "chat"
  /\ call.pc = "handler"
  /\ call' = IF ValidMessages(call.messages)
               THEN [call EXCEPT !.pc = "valid"]
               ELSE [call EXCEPT !.pc = "done", !.reply = MissingMessages]
  /\ UNCHANGED <<apiKeys, nextJob, jobs, queue, lock, result, userWorkers, worker, waiter>>

\* lines 702-727: the job is pushed, the worker spawned if the registry has none
ChatAdmit(prov) ==
  /\ call.fn = "chat"
  /\ call.pc = "valid"
  /\ Enqueue(call.proc, call.tenant, prov)
  /\ call' = [call EXCEPT !.pc = "admitted"]

\* the handler goes on to waitForResult; the next request is followed
ChatWaits ==
  /\ call.fn = "chat"
  /\ call.pc = "admitted"
  /\ call' = [call EXCEPT !.pc = "done"]
  /\ UNCHANGED <<apiKeys, nextJob, jobs, queue, lock, result, userWorkers, worker, waiter>>

GateNext ==
  \/ \E p \in Procs, t \in Tenants, header \in ServiceHeaders, messages \in MessagesFields :
       ChatArrives(p, t, header, messages)
  \/ Authenticate
  \/ Validate
  \/ \E prov \in PrimaryProviders : ChatAdmit(prov)
  \/ ChatWaits
GateSpec == GateInit /\ [][GateNext]_vars

\* the request followed is past the middleware / past the validation
PastGate == call.fn = "chat" /\ call.pc \in {"handler", "valid", "admitted", "done"}
PastValidation == call.fn = "chat" /\ call.pc \in {"valid", "admitted", "done"}
EngineUnchanged ==
  UNCHANGED <<nextJob, jobs, queue, lock, result, userWorkers, worker, waiter>>

\* C15 (authentication gate): when SERVICE_API_KEY is configured, a request whose
\* x-service-key header is missing or different is answered 401 and causes no
\* rpush, no worker spawn and no provider call; when it is not configured, every
\* request passes the gate.
C15_AuthGate ==
  /\ [](PastGate =>
         /\ Truthy(call.serviceKey) /\ call.header # call.serviceKey
              => call.reply = Unauthorized /\ call.pc = "done"
         /\ ~Truthy(call.serviceKey) => call.reply # Unauthorized)
  /\ [][call.fn = "chat" /\ call'.reply = Unauthorized => EngineUnchanged]_vars

\* a request was refused by the middleware after another one had been admitted
C15_Witness ==
  /\ call.fn = "chat"
  /\ call.reply = Unauthorized
  /\ nextJob > 1

\* the messages field of the request followed is missing or is not an array
NotAnArray == call.messages \in {"absent", "null", "string", "object"}

\* C16 (validation): a request that reaches the handler with messages missing or
\* not an array is answered 400 and leaves queue, lock, result and registry
\* unchanged.
C16_Validation ==
  /\ [](PastValidation /\ call.reply # Unauthorized /\ NotAnArray
         => call.reply = MissingMessages /\ call.pc = "done")
  /\ [][call.fn = "chat" /\ call'.reply = MissingMessages => EngineUnchanged]_vars

\* a request with the right key and no array was refused after an admission
C16_Witness ==
  /\ call.fn = "chat"
  /\ call.reply = MissingMessages
  /\ call.serviceKey = "k1"
  /\ call.header = "k1"
  /\ nextJob > 1

\* ================================================= adapters, reply to output
\* One adapter call is followed from the upstream HTTP reply (status 2xx, so that axios
\* resolves) to the value the adapter returns. A JSON value is a string, or one of the
\* names "null" and "absent"; an array is a sequence, with a flag for a field that is
\* not there at all.
MaxParts == 2
Adapters == {"handleOpenAI", "handleGemini"}
SafetyPlaceholder == "I cannot answer this due to safety filters."
IsString(v) == v \notin {"null", "absent"}

\* choices[i].message of a chat/completions reply
UpstreamMessages ==
  [content : {"hello", "", "null", "absent"}, tool_calls : {"array", "absent"}]
\* response.data of chat/completions: choices absent, empty, or with one message
OpenAIReplies ==
  {[present |-> FALSE, items |-> <<>>]} \cup
  {[present |-> TRUE, items |-> <<>>]} \cup
  {[present |-> TRUE, items |-> <<m>>] : m \in UpstreamMessages}

\* a part of candidates[0].content.parts: a text, an empty text, a function call, or
\* a part with neither
Parts ==
  {[text |-> "hello", functionCall |-> "absent"], [text |-> "", functionCall |-> "absent"],
   [text |-> "absent", functionCall |-> "f"], [text |-> "absent", functionCall |-> "absent"]}
PartLists == UNION {[1..n -> Parts] : n \in 0..MaxParts}
\* candidates[0]: without content, with content without parts, with parts
Candidates ==
  {[content |-> FALSE, hasParts |-> FALSE, parts |-> <<>>],
   [content |-> TRUE, hasParts |-> FALSE, parts |-> <<>>]} \cup
  {[content |-> TRUE, hasParts |-> TRUE, parts |-> ps] : ps \in PartLists}
\* response.data of generateContent: candidates absent, empty, or with one candidate
GeminiReplies ==
  {[present |-> FALSE, items |-> <<>>]} \cup
  {[present |-> TRUE, items |-> <<>>]} \cup
  {[present |-> TRUE, items |-> <<c>>] : c \in Candidates}

UpstreamReplies(adapter) ==
  IF adapter = "handleGemini" THEN GeminiReplies ELSE OpenAIReplies

\* lines 427-428: candidates?.[0], then candidate?.content?.parts || []
PartsOf(data) ==
  IF data.present /\ Len(data.items) > 0 /\ data.items[1].content /\ data.items[1].hasParts
    THEN data.items[1].parts
    ELSE <<>>

\* line 431: parts.filter((p) => p.functionCall)
FunctionCallParts(parts) == SelectSeq(parts, LAMBDA p : p.functionCall # "absent")

\* lines 461-462: parts[0]?.text || placeholder
TextOf(parts) ==
  IF Len(parts) > 0 /\ parts[1].text \notin {"absent", ""}
    THEN parts[1].text
    ELSE SafetyPlaceholder

\* handleGemini lines 427-465: what is returned for response.data
GeminiOutput(data) ==
  IF Len(FunctionCallParts(PartsOf(data))) > 0
    THEN [present |-> TRUE, items |-> <<[content |-> "null", tool_calls |-> "array"]>>]
    ELSE [present |-> TRUE,
          items |-> <<[content |-> TextOf(PartsOf(data)), tool_calls |-> "absent"]>>]

\* handleOpenAI line 291: return response.data
OpenAIOutput(data) == data

AdapterOutput(adapter, data) ==
  IF adapter = "handleGemini" THEN GeminiOutput(data) ELSE OpenAIOutput(data)

NoData == [present |-> FALSE, items |-> <<>>]

AdapterInit ==
  /\ EngineInit
  /\ \E adapter \in Adapters :
       call = [fn |-> "adapter", adapter |-> adapter, pc |-> "posted",
               upstream |-> NoData, out |-> NoData]

\* lines 283-290, 421-425: axios.post resolves with the upstream reply
UpstreamReply(data) ==
  /\ call.fn = "adapter"
  /\ call.pc = "posted"
  /\ data \in UpstreamReplies(call.adapter)
  /\ call' = [call EXCEPT !.pc = "replied", !.upstream = data]
  /\ UNCHANGED <<apiKeys, nextJob, jobs, queue, lock, result, userWorkers, worker, waiter>>

\* lines 291, 427-465: the adapter returns
AdapterReturn ==
  /\ call.fn = "adapter"
  /\ call.pc = "replied"
  /\ call' = [call EXCEPT !.pc = "returned",
                          !.out = AdapterOutput(call.adapter, call.upstream)]
  /\ UNCHANGED <<apiKeys, nextJob, jobs, queue, lock, result, userWorkers, worker, waiter>>

AdapterNext ==
  \/ \E data \in OpenAIReplies \cup GeminiReplies : UpstreamReply(data)
  \/ AdapterReturn
AdapterSpec == AdapterInit /\ [][AdapterNext]_vars

\* the canonical shape: choices[0].message exists and has a string content or an
\* array tool_calls
Canonical(out) ==
  /\ out.present
  /\ Len(out.items) > 0
  /\ IsString(out.items[1].content) \/ out.items[1].tool_calls = "array"

\* C18 (canonical shape): for every adapter and every upstream reply on which the
\* adapter returns normally, the output has choices[0].message, and that message has
\* either a string content or an array tool_calls.
C18_CanonicalShape ==
  call.fn = "adapter" /\ call.pc = "returned" => Canonical(call.out)

\* ========================================================= detectQueryType
\* One call of detectQueryType followed by logCreditUsage. A text is modelled by its
\* length; job.files is null (present = FALSE) or an array of file types.
MaxMessages == 2
MaxFiles == 2
TextLens == {0, 49, 50, 200, 201}
FileTypes == {"image", "pdf", "other"}
Roles == {"user", "assistant"}
QueryTypes == {"basic_query", "complex_query", "document_analysis", "image_analysis"}

\* CREDIT_COSTS lines 68-75, in tenths of a credit
CREDIT_COSTS ==
  [basic_query |-> 10, file_search |-> 20, document_analysis |-> 30,
   image_analysis |-> 40, complex_query |-> 50, embedding |-> 5]

\* a content part: {type: "text", text} or {type: "image_url"}
TextPart(n) == [type |-> "text", len |-> n]
ImagePart == [type |-> "image_url", len |-> 0]
\* message.content: absent, a string, or an array of parts
Contents ==
  {[kind |-> "absent", len |-> 0, parts |-> <<>>]} \cup
  {[kind |-> "string", len |-> n, parts |-> <<>>] : n \in TextLens} \cup
  {[kind |-> "array", len |-> 0, parts |-> <<TextPart(n)>>] : n \in TextLens} \cup
  {[kind |-> "array", len |-> 0, parts |-> <<ImagePart>>],
   [kind |-> "array", len |-> 0, parts |-> <<ImagePart, TextPart(201)>>]}
Messages == [role : Roles, content : Contents]
MessageLists == UNION {[1..n -> Messages] : n \in 0..MaxMessages}
FileLists ==
  {[present |-> FALSE, items |-> <<>>]} \cup
  {[present |-> TRUE, items |-> fs] : fs \in UNION {[1..n -> FileTypes] : n \in 0..MaxFiles}}

EmptyString == [kind |-> "string", len |-> 0, parts |-> <<>>]

\* line 126: messages[messages.length - 1]?.content || ""
LastMessage(messages) ==
  IF Len(messages) = 0 THEN EmptyString
  ELSE LET c == messages[Len(messages)].content IN
       IF c.kind = "absent" \/ (c.kind = "string" /\ c.len = 0) THEN EmptyString ELSE c

\* lastMessage.some((m) => m.type === "image_url")
HasImagePart(c) ==
  c.kind = "array" /\ \E i \in 1..Len(c.parts) : c.parts[i].type = "image_url"

\* lines 139-141: the length of the first text part, or of the string
TextLen(c) ==
  IF c.kind = "array"
    THEN LET texts == SelectSeq(c.parts, LAMBDA m : m.type = "text") IN
         IF Len(texts) > 0 THEN texts[1].len ELSE 0
    ELSE c.len

\* detectQueryType lines 125-147
detectQueryType(messages, files) ==
  LET lastMessage == LastMessage(messages)
      hasInlineImage == HasImagePart(lastMessage)
      hasFiles == files.present /\ Len(files.items) > 0
      textLen == TextLen(lastMessage)
  IN  IF hasFiles /\ files.items[1] = "image" THEN "image_analysis"
      ELSE IF hasInlineImage THEN "image_analysis"
      ELSE IF hasFiles /\ files.items[1] = "pdf" THEN "document_analysis"
      ELSE IF textLen < 50 THEN "basic_query"
      ELSE IF textLen > 200 THEN "complex_query"
      ELSE "basic_query"

DetectInit ==
  /\ EngineInit
  /\ \E messages \in MessageLists, files \in FileLists :
       call = [fn |-> "detectQueryType", messages |-> messages, files |-> files,
               pc |-> "called", out |-> "none", credits_used |-> 0]

\* line 602: const queryType = detectQueryType(job.messages, job.files)
DetectReturn ==
  /\ call.fn = "detectQueryType"
  /\ call.pc = "called"
  /\ call' = [call EXCEPT !.pc = "detected",
                          !.out = detectQueryType(call.messages, call.files)]
  /\ UNCHANGED <<apiKeys, nextJob, jobs, queue, lock, result, userWorkers, worker, waiter>>

\* lines 603-610, 180, 192, 622: credits_used of the metadata
LogCreditUsage ==
  /\ call.fn = "detectQueryType"
  /\ call.pc = "detected"
  /\ call' = [call EXCEPT !.pc = "logged", !.credits_used = CREDIT_COSTS[call.out]]
  /\ UNCHANGED <<apiKeys, nextJob, jobs, queue, lock, result, userWorkers, worker, waiter>>

DetectNext == DetectReturn \/ LogCreditUsage
DetectSpec == DetectInit /\ [][DetectNext]_vars

\* the rule as stated: any file, any message, the last message of role user
AnyFile(files, type) ==
  files.present /\ \E i \in 1..Len(files.items) : files.items[i] = type
AnyImagePart(messages) == \E i \in 1..Len(messages) : HasImagePart(messages[i].content)
LastUserText(messages) ==
  LET users == SelectSeq(messages, LAMBDA m : m.role = "user") IN
  IF Len(users) = 0 THEN 0 ELSE TextLen(users[Len(users)].content)
StatedQueryType(messages, files) ==
  IF AnyFile(files, "image") \/ AnyImagePart(messages) THEN "image_analysis"
  ELSE IF AnyFile(files, "pdf") THEN "document_analysis"
  ELSE IF LastUserText(messages) < 50 THEN "basic_query"
  ELSE IF LastUserText(messages) > 200 THEN "complex_query"
  ELSE "basic_query"

\* C19 (query-type detection): for every messages/files input, detectQueryType
\* returns image_analysis if any file is an image or any message content part is an
\* image-URL part; else document_analysis if any file is a pdf; else basic_query or
\* complex_query by the text length of the last user message (<50 basic, >200
\* complex, otherwise basic); and credits_used is the credit-table value of that type.
C19_QueryType ==
  /\ call.fn = "detectQueryType" /\ call.pc \in {"detected", "logged"}
       => call.out = StatedQueryType(call.messages, call.files)
  /\ call.fn = "detectQueryType" /\ call.pc = "logged"
       => call.credits_used = CREDIT_COSTS[StatedQueryType(call.messages, call.files)]

\* ================================================ the reply and updateTicket
\* One handler is followed from the return of waitForResult to the end of the ticket
\* classifier. replies is the sequence of HTTP replies written to res.
Categories == {"absent", "low", "LOW", "Low", "high", "5"}
TicketIds == {"absent", "", "T1"}
TicketCategories == {"null", "array"}
\* result.data of a success payload: with choices[0].message, or without
ResultData == {"canonical", "no_choices"}
TicketStages == <<"prompt", "llm", "parse", "webhook">>

\* String.prototype.toLowerCase on the categories above
ToLowerCase(category) == IF category \in {"low", "LOW", "Low"} THEN "low" ELSE category
\* a number has no toLowerCase: category?.toLowerCase() throws a TypeError
HasToLowerCase(category) == category # "5"

\* line 733: category?.toLowerCase() === "low" && ticket_id
TicketGate(category, ticket_id) ==
  /\ category # "absent"
  /\ ToLowerCase(category) = "low"
  /\ ticket_id \notin {"absent", ""}

\* res.headersSent
HeadersSent(replies) == Len(replies) > 0

TicketInit ==
  /\ EngineInit
  /\ \E success \in BOOLEAN, data \in ResultData, category \in Categories,
        ticket_id \in TicketIds, ticket_categories \in TicketCategories :
       call = [fn |-> "reply", success |-> success, data |-> data,
               category |-> category, ticket_id |-> ticket_id,
               ticket_categories |-> ticket_categories, pc |-> "waited",
               replies |-> <<>>, started |-> FALSE, stage |-> 0, ticket |-> "none"]

\* lines 729-730, 737-739: the reply
SendReply ==
  /\ call.fn = "reply"
  /\ call.pc = "waited"
  /\ call' = IF call.success
               THEN [call EXCEPT !.pc = "sent",
                                 !.replies = Append(@, [status |-> 200, body |-> call.data])]
               ELSE [call EXCEPT !.pc = "done",
                                 !.replies = Append(@, [status |-> 500, body |-> "error"])]
  /\ UNCHANGED <<apiKeys, nextJob, jobs, queue, lock, result, userWorkers, worker, waiter>>

\* lines 733-736: the condition, the read of choices[0].message.content, and the call
\* of updateTicket, which is not awaited
StartTicket ==
  /\ call.fn = "reply"
  /\ call.pc = "sent"
  /\ call' =
       IF ~HasToLowerCase(call.category) THEN [call EXCEPT !.pc = "catch"]
       ELSE IF ~TicketGate(call.category, call.ticket_id) THEN [call EXCEPT !.pc = "done"]
       ELSE IF call.data # "canonical" THEN [call EXCEPT !.pc = "catch"]
       ELSE [call EXCEPT !.pc = "ticket", !.started = TRUE, !.stage = 1]
  /\ UNCHANGED <<apiKeys, nextJob, jobs, queue, lock, result, userWorkers, worker, waiter>>

\* lines 740-745: the catch of the handler
HandlerCatch ==
  /\ call.fn = "reply"
  /\ call.pc = "catch"
  /\ call' = [call EXCEPT !.pc = "done",
                          !.replies = IF HeadersSent(call.replies) THEN @
                                      ELSE Append(@, [status |-> 500, body |-> "error"])]
  /\ UNCHANGED <<apiKeys, nextJob, jobs, queue, lock, result, userWorkers, worker, waiter>>

\* updateTicket lines 815-972: the stage in progress succeeds; listCategory.join
\* throws when ticket_categories is null
TicketStageOk ==
  /\ call.fn = "reply"
  /\ call.pc = "ticket"
  /\ TicketStages[call.stage] = "prompt" => call.ticket_categories = "array"
  /\ call' = IF call.stage = Len(TicketStages)
               THEN [call EXCEPT !.pc = "done", !.ticket = "updated"]
               ELSE [call EXCEPT !.stage = @ + 1]
  /\ UNCHANGED <<apiKeys, nextJob, jobs, queue, lock, result, userWorkers, worker, waiter>>

\* updateTicket lines 974-995: the stage in progress throws, the catch returns null
TicketStageFails ==
  /\ call.fn = "reply"
  /\ call.pc = "ticket"
  /\ TicketStages[call.stage] = "prompt" => call.ticket_categories = "null"
  /\ call' = [call EXCEPT !.pc = "done", !.ticket = TicketStages[call.stage]]
  /\ UNCHANGED <<apiKeys, nextJob, jobs, queue, lock, result, userWorkers, worker, waiter>>

TicketNext ==
  \/ SendReply
  \/ StartTicket
  \/ HandlerCatch
  \/ TicketStageOk
  \/ TicketStageFails
TicketSpec == TicketInit /\ [][TicketNext]_vars

\* C20 (ticket classifier gating): updateTicket is started only when the job result
\* is success:true and ticket_id is present and category lower-cased equals "low";
\* it is started only after the HTTP reply has been sent, and no failure inside it
\* (LLM call, JSON parse, webhook) changes or duplicates that reply.
C20_TicketGating ==
  /\ [](call.fn = "reply" /\ call.started =>
          /\ call.success
          /\ call.ticket_id \notin {"absent", ""}
          /\ call.category \in {"low", "LOW", "Low"}
          /\ call.replies = <<[status |-> 200, body |-> call.data]>>)
  /\ [][call.fn = "reply" /\ Len(call.replies) > 0 => call'.replies = call.replies]_vars

\* the classifier was started and failed at the webhook, after the one reply
C20_Witness ==
  /\ call.fn = "reply"
  /\ call.started
  /\ call.ticket = "webhook"
  /\ Len(call.replies) = 1

\* ============================================== POST /audio, POST /image/ocr
\* One request to /audio or /image/ocr is followed from the middleware to the reply.
\* A text is a string; "absent" stands for a field that is not there and "object" for
\* a value that is no string.
Endpoints == {"audio", "ocr"}
Urls == {"absent", "", "https://host/file"}
UpstreamTexts ==
  {"absent", "", "   ", "hello", " hello ", "[NO_TEXT_DETECTED]",
   "None: [NO_TEXT_DETECTED]", "object"}
SaveErrors == {"timeout of 60000ms exceeded", "Request failed with status code 401", ""}
AudioPlaceholder == "[Audio processed. No spoken words detected (Music/Instrumental).]"
OcrPlaceholder == "Visual content only. No text detected in this image."
TrimTypeError == "trim is not a function"

\* String.prototype.trim on the texts above
Trim(text) ==
  IF text = "   " THEN "" ELSE IF text = " hello " THEN "hello" ELSE text

\* lines 1041, 1113: the field, or "" when it is absent
OrEmpty(text) == IF text = "absent" THEN "" ELSE text

\* lines 1046, 1116-1120: is the upstream text replaced by the placeholder
Replaced(endpoint, text) ==
  \/ text = ""
  \/ Trim(text) = ""
  \/ endpoint = "ocr" /\ text \in {"[NO_TEXT_DETECTED]", "None: [NO_TEXT_DETECTED]"}

\* lines 1067, 1134: the text that stands for an error
ErrorText(endpoint, message) ==
  IF endpoint = "audio"
    THEN "[Error processing audio: " \o message \o "]"
    ELSE "Error processing image: " \o message

Placeholder(endpoint) == IF endpoint = "audio" THEN AudioPlaceholder ELSE OcrPlaceholder

\* lines 1041-1058, 1113-1128: the reply text for an upstream reply; a value that is
\* no string has no trim, and the TypeError goes to the catch
ReplyText(endpoint, upstream) ==
  LET text == OrEmpty(upstream) IN
  IF text = "object" THEN ErrorText(endpoint, TrimTypeError)
  ELSE IF Replaced(endpoint, text) THEN Placeholder(endpoint)
  ELSE text

NoSaveReply == [status |-> 0, text |-> "none"]

SaveInit ==
  /\ EngineInit
  /\ \E endpoint \in Endpoints, serviceKey \in ServiceKeys, header \in ServiceHeaders,
        url \in Urls :
       call = [fn |-> "save", endpoint |-> endpoint, serviceKey |-> serviceKey,
               header |-> header, url |-> url, pc |-> "authenticate",
               error |-> "none", upstream |-> "none", reply |-> NoSaveReply]

\* authenticate lines 89-96
SaveAuthenticate ==
  /\ call.fn = "save"
  /\ call.pc = "authenticate"
  /\ call' = IF Authenticated(call.serviceKey, call.header)
               THEN [call EXCEPT !.pc = "handler"]
               ELSE [call EXCEPT !.pc = "done",
                                 !.reply = [status |-> 401, text |-> "Unauthorized"]]
  /\ UNCHANGED <<apiKeys, nextJob, jobs, queue, lock, result, userWorkers, worker, waiter>>

\* lines 1003-1007, 1078-1082: the url is required; /audio downloads the file first
SaveValidate ==
  /\ call.fn = "save"
  /\ call.pc = "handler"
  /\ call' = IF ~Truthy(call.url)
               THEN [call EXCEPT !.pc = "done",
                                 !.reply = [status |-> 400,
                                            text |-> IF call.endpoint = "audio"
                                                       THEN "Missing audio url"
                                                       ELSE "Missing image_url"]]
               ELSE [call EXCEPT !.pc = IF call.endpoint = "audio" THEN "download"
                                        ELSE "upstream"]
  /\ UNCHANGED <<apiKeys, nextJob, jobs, queue, lock, result, userWorkers, worker, waiter>>

\* lines 1013-1026: the download of the audio file succeeds
DownloadOk ==
  /\ call.fn = "save"
  /\ call.pc = "download"
  /\ call' = [call EXCEPT !.pc = "upstream"]
  /\ UNCHANGED <<apiKeys, nextJob, jobs, queue, lock, result, userWorkers, worker, waiter>>

\* lines 1013-1038, 1087-1111 and the catch blocks 1059-1070, 1129-1135: the download
\* or the upstream call throws
SaveThrows(message) ==
  /\ call.fn = "save"
  /\ call.pc \in {"download", "upstream"}
  /\ call' = [call EXCEPT !.pc = "done", !.error = message,
                          !.reply = [status |-> 200,
                                     text |-> ErrorText(call.endpoint, message)]]
  /\ UNCHANGED <<apiKeys, nextJob, jobs, queue, lock, result, userWorkers, worker, waiter>>

\* lines 1041-1058, 1113-1128: the upstream call returns and the reply is sent
SaveReturns(text) ==
  /\ call.fn = "save"
  /\ call.pc = "upstream"
  /\ call' = [call EXCEPT !.pc = "done", !.upstream = text,
                          !.reply = [status |-> 200,
                                     text |-> ReplyText(call.endpoint, text)]]
  /\ UNCHANGED <<apiKeys, nextJob, jobs, queue, lock, result, userWorkers, worker, waiter>>

SaveNext ==
  \/ SaveAuthenticate
  \/ SaveValidate
  \/ DownloadOk
  \/ \E message \in SaveErrors : SaveThrows(message)
  \/ \E text \in UpstreamTexts : SaveReturns(text)
SaveSpec == SaveInit /\ [][SaveNext]_vars

\* the request followed passed the middleware, had a url, and has been answered
SaveAnswered ==
  /\ call.fn = "save"
  /\ call.pc = "done"
  /\ call.reply.status \notin {400, 401}

\* C22 (save-signal convention): every POST /audio with a url and every POST
\* /image/ocr with an image_url that reaches its handler is answered with status 200
\* and a non-empty text: a download or upstream error is returned as the error string
\* in that field, and an empty transcription, or an empty or [NO_TEXT_DETECTED] OCR
\* reply, is replaced by the fixed placeholder.
C22_SaveSignal ==
  /\ call.fn = "save" /\ call.pc = "done"
       /\ call.url = "https://host/file"
       /\ (call.serviceKey \in {"absent", ""} \/ call.header = call.serviceKey)
       => SaveAnswered
  /\ SaveAnswered =>
       /\ call.reply.status = 200
       /\ call.reply.text \notin {"", "   ", "absent", "none", "object"}
       /\ call.error # "none" =>
            call.reply.text = ErrorText(call.endpoint, call.error)
       /\ call.upstream \in {"absent", "", "   "} =>
            call.reply.text = Placeholder(call.endpoint)
       /\ call.endpoint = "ocr"
            /\ call.upstream \in {"[NO_TEXT_DETECTED]", "None: [NO_TEXT_DETECTED]"}
            => call.reply.text = OcrPlaceholder

\* an OCR request whose upstream reply was the tag has been answered
C22_Witness ==
  /\ SaveAnswered
  /\ call.endpoint = "ocr"
  /\ call.upstream = "[NO_TEXT_DETECTED]"
  /\ call.serviceKey = "k1"

\* ======================================================== POST /embeddings
\* Requests to /embeddings, one at a time, each followed from the middleware to its
\* reply, while chat requests are admitted in between.
EmbedInputs == {"absent", "text", "array"}
EmbedProviders == {"absent", "openai", "gemini"}
EmbeddingSettings == {"absent", "gemini"}

\* routeEmbeddings lines 549-553: the function called
routeEmbeddings(provider, setting) ==
  LET p == IF Truthy(provider) THEN provider
           ELSE IF Truthy(setting) THEN setting ELSE "openai"
  IN  IF p = "gemini" THEN "getGeminiEmbeddings" ELSE "getOpenAIEmbeddings"

\* lines 752-785 with routeEmbeddings, getOpenAIEmbeddings, getGeminiEmbeddings and
\* logEmbeddingUsage: the KV list queue:{tenant} after the handler has run; it sends
\* no KV command
EmbeddingsQueue(q) == q

EmbedInit ==
  /\ EngineInit
  /\ \E serviceKey \in ServiceKeys, setting \in EmbeddingSettings :
       call = [fn |-> "embeddings", serviceKey |-> serviceKey, setting |-> setting,
               pc |-> "idle", header |-> "absent", texts |-> "absent",
               provider |-> "absent", adapter |-> "none", reply |-> NoReply]

\* a POST /embeddings arrives
EmbedArrives(header, texts, provider) ==
  /\ call.fn = "embeddings"
  /\ call.pc \in {"idle", "done"}
  /\ call' = [call EXCEPT !.pc = "authenticate", !.header = header, !.texts = texts,
                          !.provider = provider, !.adapter = "none", !.reply = NoReply]
  /\ UNCHANGED <<apiKeys, nextJob, jobs, queue, lock, result, userWorkers, worker, waiter>>

\* authenticate lines 89-96
EmbedAuthenticate ==
  /\ call.fn = "embeddings"
  /\ call.pc = "authenticate"
  /\ call' = IF Authenticated(call.serviceKey, call.header)
               THEN [call EXCEPT !.pc = "handler"]
               ELSE [call EXCEPT !.pc = "done", !.reply = Unauthorized]
  /\ UNCHANGED <<apiKeys, nextJob, jobs, queue, lock, result, userWorkers, worker, waiter>>

\* lines 753-762: texts || input is required; routeEmbeddings is called
EmbedValidate ==
  /\ call.fn = "embeddings"
  /\ call.pc = "handler"
  /\ call' = IF ~Truthy(call.texts)
               THEN [call EXCEPT !.pc = "done",
                                 !.reply = [status |-> 400,
                                            body |-> "Missing texts or input"]]
               ELSE [call EXCEPT !.pc = "route",
                                 !.adapter = routeEmbeddings(call.provider, call.setting)]
  /\ UNCHANGED <<apiKeys, nextJob, jobs, queue, lock, result, userWorkers, worker, waiter>>

\* lines 762-783: the adapter returns, the usage is computed and the reply sent
EmbedReturns ==
  /\ call.fn = "embeddings"
  /\ call.pc = "route"
  /\ call' = [call EXCEPT !.pc = "done", !.reply = [status |-> 200, body |-> "list"]]
  /\ queue' = [t \in Tenants |-> EmbeddingsQueue(queue[t])]
  /\ UNCHANGED <<apiKeys, nextJob, jobs, lock, result, userWorkers, worker, waiter>>

\* lines 784-790: the adapter throws; the catch replies with the upstream status or 500
EmbedThrows(status) ==
  /\ call.fn = "embeddings"
  /\ call.pc = "route"
  /\ call' = [call EXCEPT !.pc = "done", !.reply = [status |-> status, body |-> "error"]]
  /\ queue' = [t \in Tenants |-> EmbeddingsQueue(queue[t])]
  /\ UNCHANGED <<apiKeys, nextJob, jobs, lock, result, userWorkers, worker, waiter>>

EmbedNext ==
  \/ \E p \in Procs, t \in Tenants, prov \in PrimaryProviders : Admit(p, t, prov)
  \/ \E header \in ServiceHeaders, texts \in EmbedInputs, provider \in EmbedProviders :
       EmbedArrives(header, texts, provider)
  \/ EmbedAuthenticate
  \/ EmbedValidate
  \/ EmbedReturns
  \/ \E status \in {429, 500} : EmbedThrows(status)
EmbedSpec == EmbedInit /\ [][EmbedNext]_vars

\* C23 (embeddings are queue-free): handling POST /embeddings never pushes to a
\* queue:{tenant}, never sets or deletes a lock or result key and never changes the
\* worker registry; the handler replies itself, without a worker or a waiter.
C23_EmbeddingsQueueFree ==
  /\ [](call.fn = "embeddings" /\ call.pc = "done" => call.reply # NoReply)
  /\ [][call.fn = "embeddings" /\ call' # call => EngineUnchanged]_vars

\* an embeddings request has been answered 200 while chat jobs were queued
C23_Witness ==
  /\ call.fn = "embeddings"
  /\ call.pc = "done"
  /\ call.reply.status = 200
  /\ call.adapter = "getGeminiEmbeddings"
  /\ queue["t1"] # <<>>
  /\ userWorkers["p1"] # {}

\* ============================================ handleGemini, request translation
\* One call of handleGemini is followed up to the contents it has built (lines
\* 314-401).  A JSON value is modelled by name ("absent" for undefined); the text of
\* a JSON value is what JSON.stringify gives for it.
MaxToolCalls == 2
ToolNames == {"f", "g"}
JsonValues == {"{}", "{a:1}"}

\* JSON.stringify and JSON.parse on the values above
JsonStringify(v) == IF v = "{}" THEN "'{}'" ELSE "'{\"a\":1}'"
JsonTexts == {JsonStringify(v) : v \in JsonValues}
JsonParse(text) == CHOOSE v \in JsonValues : JsonStringify(v) = text

\* an entry of message.tool_calls
ToolCall(id, name, arguments) == [id |-> id, name |-> name, arguments |-> arguments]
ToolCalls == {ToolCall("call_1", n, a) : n \in ToolNames, a \in JsonTexts}
ToolCallLists == UNION {[1..n -> ToolCalls] : n \in 0..MaxToolCalls}
NoToolCalls == [present |-> FALSE, items |-> <<>>]

\* the messages of a request: plain ones, tool results (with or without the name
\* field), assistant messages with tool_calls, and a user message that has the field
ChatMessages ==
  {[role |-> r, content |-> c, name |-> "absent", tool_calls |-> NoToolCalls] :
     r \in {"system", "user", "assistant"}, c \in {"hello", "absent"}} \cup
  {[role |-> "tool", content |-> c, name |-> n, tool_calls |-> NoToolCalls] :
     c \in {"sunny", "absent"}, n \in {"absent", "f"}} \cup
  {[role |-> "assistant", content |-> "absent", name |-> "absent",
    tool_calls |-> [present |-> TRUE, items |-> tcs]] : tcs \in ToolCallLists} \cup
  {[role |-> "user", content |-> "hello", name |-> "absent",
    tool_calls |-> [present |-> TRUE, items |-> <<>>]]}
ChatMessageLists == UNION {[1..n -> ChatMessages] : n \in 0..MaxMessages}

\* the parts of a contents entry
TextEntryPart(text) == [kind |-> "text", name |-> "absent", value |-> text]
FunctionCallPart(name, args) == [kind |-> "functionCall", name |-> name, value |-> args]
FunctionResponsePart(name, content) ==
  [kind |-> "functionResponse", name |-> name, value |-> content]

\* line 398: msg.role === "assistant" ? "model" : "user"
GeminiRole(role) == IF role = "assistant" THEN "model" ELSE "user"

\* lines 337-342: msg.tool_calls.map(...)
FnParts(tcs) ==
  [i \in 1..Len(tcs) |-> FunctionCallPart(tcs[i].name, JsonParse(tcs[i].arguments))]

\* lines 316-400: the contents entry pushed for one message
GeminiEntry(msg) ==
  IF msg.role = "tool"
    THEN [role |-> "user", parts |-> <<FunctionResponsePart(msg.name, msg.content)>>]
  ELSE IF msg.role = "assistant" /\ msg.tool_calls.present
    THEN [role |-> "model", parts |-> FnParts(msg.tool_calls.items)]
  ELSE [role |-> GeminiRole(msg.role),
        parts |-> IF msg.content = "absent" THEN <<>>
                  ELSE <<TextEntryPart(msg.content)>>]

\* lines 314-401: the loop over the messages
GeminiContents(messages) == [i \in 1..Len(messages) |-> GeminiEntry(messages[i])]

TranslateInit ==
  /\ EngineInit
  /\ \E messages \in ChatMessageLists :
       call = [fn |-> "handleGemini", messages |-> messages, pc |-> "called",
               contents |-> <<>>]

\* lines 314-406: the request body is built
BuildContents ==
  /\ call.fn = "handleGemini"
  /\ call.pc = "called"
  /\ call' = [call EXCEPT !.pc = "built", !.contents = GeminiContents(call.messages)]
  /\ UNCHANGED <<apiKeys, nextJob, jobs, queue, lock, result, userWorkers, worker, waiter>>

TranslateNext == BuildContents
TranslateSpec == TranslateInit /\ [][TranslateNext]_vars

\* C29 (Gemini outbound translation): handleGemini emits exactly one contents entry
\* per input message, in order; a tool message becomes a user-role entry with one
\* functionResponse carrying the message's name and content; an assistant message
\* with tool calls becomes a model-role entry with one functionCall per tool call;
\* every other message gets role model if its role is assistant and user otherwise.
C29_GeminiTranslation ==
  call.fn = "handleGemini" /\ call.pc = "built" =>
    /\ Len(call.contents) = Len(call.messages)
    /\ \A i \in 1..Len(call.messages) :
         LET msg == call.messages[i]
             entry == call.contents[i]
         IN  IF msg.role = "tool"
               THEN /\ entry.role = "user"
                    /\ entry.parts = <<[kind |-> "functionResponse", name |-> msg.name,
                                        value |-> msg.content]>>
             ELSE IF msg.role = "assistant" /\ msg.tool_calls.present
               THEN /\ entry.role = "model"
                    /\ Len(entry.parts) = Len(msg.tool_calls.items)
                    /\ \A k \in 1..Len(entry.parts) :
                         /\ entry.parts[k].kind = "functionCall"
                         /\ entry.parts[k].name = msg.tool_calls.items[k].name
                         /\ JsonStringify(entry.parts[k].value)
                              = msg.tool_calls.items[k].arguments
             ELSE entry.role = (IF msg.role = "assistant" THEN "model" ELSE "user")

\* an assistant message with two tool calls followed by a tool result was translated
C29_Witness ==
  /\ call.fn = "handleGemini"
  /\ call.pc = "built"
  /\ Len(call.messages) = 2
  /\ call.messages[1].role = "assistant"
  /\ Len(call.messages[1].tool_calls.items) = 2
  /\ call.messages[2].role = "tool"

\* =============================================== tool calls, there and back
\* A Gemini reply with function calls is followed through handleGemini's translation of
\* the reply (lines 430-456), the client's next request (the assistant message with the
\* tool_calls it was given, then one tool-result message per call) and handleGemini's
\* translation of that request (lines 321-347).
FunctionCalls == [name : ToolNames, args : JsonValues \cup {"absent"}]
FunctionCallLists == UNION {[1..n -> FunctionCalls] : n \in 1..MaxToolCalls}
\* the content a tool returned
ToolResult == "sunny"

\* line 436: `call_${Date.now()}_${i}`
CallId(i) == IF i = 1 THEN "call_0" ELSE "call_1"

\* line 439: JSON.stringify(p.functionCall.args || {})
StringifyArgs(args) == JsonStringify(IF args = "absent" THEN "{}" ELSE args)

\* lines 433-441: functionCallParts.map(...)
ToToolCalls(fcs) ==
  [i \in 1..Len(fcs) |-> ToolCall(CallId(i), fcs[i].name, StringifyArgs(fcs[i].args))]

\* the client's tool-result message for a tool call: role, tool_call_id and content,
\* and the function's name if the client adds that field
ToolMessage(tc, named) ==
  [role |-> "tool", content |-> ToolResult, tool_call_id |-> tc.id,
   name |-> IF named THEN tc.name ELSE "absent", tool_calls |-> NoToolCalls]

\* the messages the client sends next
NextTurn(tcs, named) ==
  <<[role |-> "assistant", content |-> "absent", name |-> "absent",
     tool_calls |-> [present |-> TRUE, items |-> tcs]]>>
  \o [i \in 1..Len(tcs) |-> ToolMessage(tcs[i], named)]

RoundTripInit ==
  /\ EngineInit
  /\ \E fcs \in FunctionCallLists :
       call = [fn |-> "roundtrip", reply |-> fcs, pc |-> "replied", named |-> FALSE,
               tool_calls |-> <<>>, messages |-> <<>>, contents |-> <<>>]

\* lines 430-456: handleGemini returns the reply as tool_calls
Inbound ==
  /\ call.fn = "roundtrip"
  /\ call.pc = "replied"
  /\ call' = [call EXCEPT !.pc = "returned", !.tool_calls = ToToolCalls(call.reply)]
  /\ UNCHANGED <<apiKeys, nextJob, jobs, queue, lock, result, userWorkers, worker, waiter>>

\* the client runs the tools and posts the next turn (lines 687, 706-721)
ClientContinues(named) ==
  /\ call.fn = "roundtrip"
  /\ call.pc = "returned"
  /\ call' = [call EXCEPT !.pc = "posted", !.named = named,
                          !.messages = NextTurn(call.tool_calls, named)]
  /\ UNCHANGED <<apiKeys, nextJob, jobs, queue, lock, result, userWorkers, worker, waiter>>

\* lines 314-401: handleGemini builds the contents of the next request
Outbound ==
  /\ call.fn = "roundtrip"
  /\ call.pc = "posted"
  /\ call' = [call EXCEPT !.pc = "built", !.contents = GeminiContents(call.messages)]
  /\ UNCHANGED <<apiKeys, nextJob, jobs, queue, lock, result, userWorkers, worker, waiter>>

RoundTripNext ==
  \/ Inbound
  \/ \E named \in BOOLEAN : ClientContinues(named)
  \/ Outbound
RoundTripSpec == RoundTripInit /\ [][RoundTripNext]_vars

\* C30 (tool-call round trip): for every Gemini functionCall {name, args},
\* translating it to a canonical tool call and then back (as an assistant message with
\* tool_calls followed by its tool-result message) yields a functionCall with the same
\* name and args and a functionResponse with the same tool name and content, and the
\* number and order of the tool calls is preserved.
C30_ToolCallRoundTrip ==
  call.fn = "roundtrip" /\ call.pc = "built" =>
    LET n == Len(call.reply) IN
    /\ Len(call.contents) = n + 1
    /\ Len(call.contents[1].parts) = n
    /\ \A k \in 1..n :
         /\ call.contents[1].parts[k].kind = "functionCall"
         /\ call.contents[1].parts[k].name = call.reply[k].name
         /\ call.contents[1].parts[k].value = call.reply[k].args
         /\ Len(call.contents[k + 1].parts) = 1
         /\ call.contents[k + 1].parts[1].kind = "functionResponse"
         /\ call.contents[k + 1].parts[1].name = call.reply[k].name
         /\ call.contents[k + 1].parts[1].value = ToolResult

\* ================================================ the legacy files list
\* One adapter call is followed up to the request it has built, for the images of the
\* files list: attached[i] is what the adapter appended to the content of message i.
\* A message is its role; a file is its type.
RoleLists == UNION {[1..n -> Roles] : n \in 0..MaxMessages}
NoUserTypeError == "Cannot read properties of undefined (reading 'index')"

\* lines 235, 308: files && files.length > 0
HasFiles(files) == files.present /\ Len(files.items) > 0

\* lines 260-267, 380-394: the parts appended for the files that are images
ImagesOf(files) == SelectSeq(files.items, LAMBDA type : type = "image")

\* lines 244-247: the index of the last message of role user, 0 if there is none
LastUserIndex(roles) ==
  IF \E i \in 1..Len(roles) : roles[i] = "user"
    THEN CHOOSE i \in 1..Len(roles) :
           /\ roles[i] = "user"
           /\ \A k \in (i + 1)..Len(roles) : roles[k] # "user"
    ELSE 0

\* handleOpenAI lines 243-269: the images go to the last message of role user
OpenAIAttached(roles, files) ==
  [i \in 1..Len(roles) |->
     IF HasFiles(files) /\ i = LastUserIndex(roles) THEN ImagesOf(files) ELSE <<>>]

\* handleGemini lines 378-395: the images go to the message in hand if it is of role
\* user and is the last of the list
GeminiAttached(roles, files) ==
  [i \in 1..Len(roles) |->
     IF roles[i] = "user" /\ HasFiles(files) /\ i = Len(roles)
       THEN ImagesOf(files) ELSE <<>>]

FoldInit ==
  /\ EngineInit
  /\ \E adapter \in Adapters, roles \in RoleLists, files \in FileLists :
       call = [fn |-> "fold", adapter |-> adapter, roles |-> roles, files |-> files,
               pc |-> "called", attached |-> <<>>, error |-> "none"]

\* lines 243-281, 314-406: the request is built; handleOpenAI throws when it has files
\* and finds no message of role user
BuildRequest ==
  /\ call.fn = "fold"
  /\ call.pc = "called"
  /\ call' =
       IF call.adapter = "handleGemini"
         THEN [call EXCEPT !.pc = "built",
                           !.attached = GeminiAttached(call.roles, call.files)]
       ELSE IF HasFiles(call.files) /\ LastUserIndex(call.roles) = 0
         THEN [call EXCEPT !.pc = "thrown", !.error = NoUserTypeError]
       ELSE [call EXCEPT !.pc = "built",
                         !.attached = OpenAIAttached(call.roles, call.files)]
  /\ UNCHANGED <<apiKeys, nextJob, jobs, queue, lock, result, userWorkers, worker, waiter>>

FoldNext == BuildRequest
FoldSpec == FoldInit /\ [][FoldNext]_vars

\* C31 (legacy files folding): whenever a files list containing an image is supplied
\* and the messages contain a message of role user, both adapters attach every image of
\* the list to the last message of role user, wherever that message is in the sequence.
C31_FilesFolding ==
  /\ call.fn = "fold"
  /\ call.pc # "called"
  /\ call.files.present
  /\ \E i \in 1..Len(call.files.items) : call.files.items[i] = "image"
  /\ \E i \in 1..Len(call.roles) : call.roles[i] = "user"
  => /\ call.pc = "built"
     /\ \A i \in 1..Len(call.roles) :
          (call.roles[i] = "user" /\ \A k \in (i + 1)..Len(call.roles) : call.roles[k] # "user")
            => Len(call.attached[i])
                 = Cardinality({k \in 1..Len(call.files.items) : call.files.items[k] = "image"})

\* ============================================ image parts of a content array
\* One message whose content is an array is followed through the loop of handleGemini
\* over its parts, the emission of its entry and the upstream call.  A part is its
\* type; each download succeeds or fails.
MaxContent == 3
PartTypes == {"text", "image_url", "image_no_url", "other"}
ContentArrays == UNION {[1..n -> PartTypes] : n \in 0..MaxContent}

\* line 353: { text: part.text };  lines 360-365: { inline_data: ... }
TextFrom(i) == [kind |-> "text", from |-> i]
InlineDataFrom(i) == [kind |-> "inline_data", from |-> i]

\* lines 366-368: the catch logs and the loop goes on with the next part
AfterInlineFailure(c) == [c EXCEPT !.i = c.i + 1, !.failed = c.failed \cup {c.i}]

ContentInit ==
  /\ EngineInit
  /\ \E content \in ContentArrays :
       call = [fn |-> "content", content |-> content, pc |-> "loop", i |-> 1,
               parts |-> <<>>, failed |-> {}, contents |-> <<>>]

InContentLoop ==
  /\ call.fn = "content"
  /\ call.pc = "loop"
  /\ call.i <= Len(call.content)

ContentStep(c) ==
  /\ call' = c
  /\ UNCHANGED <<apiKeys, nextJob, jobs, queue, lock, result, userWorkers, worker, waiter>>

\* lines 352-353
TextPartKept ==
  /\ InContentLoop
  /\ call.content[call.i] = "text"
  /\ ContentStep([call EXCEPT !.i = call.i + 1,
                              !.parts = Append(call.parts, TextFrom(call.i))])

\* lines 354-358, 371: a part of another type, or an image part without a url
PartIgnored ==
  /\ InContentLoop
  /\ call.content[call.i] \in {"image_no_url", "other"}
  /\ ContentStep([call EXCEPT !.i = call.i + 1])

\* lines 359-365: downloadFileAsBase64 returns (lines 100-108)
InlineDownloaded ==
  /\ InContentLoop
  /\ call.content[call.i] = "image_url"
  /\ ContentStep([call EXCEPT !.i = call.i + 1,
                              !.parts = Append(call.parts, InlineDataFrom(call.i))])

\* lines 109-112, 366-368: downloadFileAsBase64 throws
InlineDownloadFails ==
  /\ InContentLoop
  /\ call.content[call.i] = "image_url"
  /\ ContentStep(AfterInlineFailure(call))

\* lines 397-400: the entry of the message is pushed
EmitEntry ==
  /\ call.fn = "content"
  /\ call.pc = "loop"
  /\ call.i > Len(call.content)
  /\ ContentStep([call EXCEPT !.pc = "emitted",
                              !.contents = Append(call.contents, call.parts)])

\* lines 402-426: the request body is built and posted
PostUpstream ==
  /\ call.fn = "content"
  /\ call.pc = "emitted"
  /\ ContentStep([call EXCEPT !.pc = "posted"])

ContentNext ==
  \/ TextPartKept
  \/ PartIgnored
  \/ InlineDownloaded
  \/ InlineDownloadFails
  \/ EmitEntry
  \/ PostUpstream
ContentSpec == ContentInit /\ [][ContentNext]_vars

\* the parts of the content other than the failed ones, in the order of the content
RECURSIVE KeptFrom(_, _, _)
KeptFrom(content, failed, i) ==
  IF i > Len(content) THEN <<>>
  ELSE (IF content[i] = "text" THEN <<TextFrom(i)>>
        ELSE IF content[i] = "image_url" /\ i \notin failed THEN <<InlineDataFrom(i)>>
        ELSE <<>>) \o KeptFrom(content, failed, i + 1)

\* C32 (inline image download): a failed download of an image-URL part of a content
\* array never makes handleGemini fail; the part is skipped, the other parts are kept
\* in order, and the entry of the message is emitted.
C32_InlineDownloadSkipped ==
  call.fn = "content" =>
    /\ call.pc # "thrown"
    /\ \A k \in 1..Len(call.parts) : call.parts[k].from \notin call.failed
    /\ call.pc \in {"emitted", "posted"} =>
         /\ call.parts = KeptFrom(call.content, call.failed, 1)
         /\ call.contents = <<call.parts>>
C32_Witness ==
  /\ call.fn = "content"
  /\ call.pc = "posted"
  /\ call.failed # {}
  /\ Len(call.parts) = 2

\* ============================================ the shared blocking connection
\* The workers of one process send their blpop on the one connection redisBlocking
\* (line 26, line 570).  A connection carries its commands in the order they were sent,
\* and the server answers them in that order: while the command at the head is blocked
\* the commands behind it wait.  call.pending is the commands sent and not yet
\* answered, call.queue the queue of each tenant, call.pc where each tenant's worker is.
MaxQueued == 2
ConnInit ==
  /\ EngineInit
  /\ call = [fn |-> "conn", pending |-> <<>>,
             queue |-> [t \in Tenants |-> <<>>], pc |-> [t \in Tenants |-> "none"]]

ConnStep(c) ==
  /\ call' = c
  /\ UNCHANGED <<apiKeys, nextJob, jobs, queue, lock, result, userWorkers, worker, waiter>>

\* lines 721-725: rpush on redisClient, and the worker is spawned if the registry has
\* no entry
ConnPush(t) ==
  /\ call.fn = "conn"
  /\ Len(call.queue[t]) < MaxQueued
  /\ ConnStep([call EXCEPT !.queue[t] = Append(@, "job"),
                           !.pc[t] = IF @ = "none" THEN "loop" ELSE @])

\* line 570: the worker sends blpop(queueKey, 1) on redisBlocking
SendBlpop(t) ==
  /\ call.fn = "conn"
  /\ call.pc[t] = "loop"
  /\ ConnStep([call EXCEPT !.pc[t] = "blpop", !.pending = Append(@, t)])

\* line 570: the command at the head of the connection finds an element and returns it
BlpopReturns ==
  /\ call.fn = "conn"
  /\ call.pending # <<>>
  /\ LET t == Head(call.pending) IN
     /\ call.queue[t] # <<>>
     /\ ConnStep([call EXCEPT !.pending = Tail(@), !.queue[t] = Tail(@), !.pc[t] = "job"])

\* line 570: the command at the head of the connection has blocked for its 1 s on an
\* empty queue and returns null
BlpopTimesOut ==
  /\ call.fn = "conn"
  /\ call.pending # <<>>
  /\ LET t == Head(call.pending) IN
     /\ call.queue[t] = <<>>
     /\ ConnStep([call EXCEPT !.pending = Tail(@), !.pc[t] = "eval"])

\* lines 588-642: the job is processed and the loop goes on
ConnJobDone(t) ==
  /\ call.fn = "conn"
  /\ call.pc[t] = "job"
  /\ ConnStep([call EXCEPT !.pc[t] = "loop"])

\* lines 572-586: the cleanup script on redisClient
ConnCleanup(t) ==
  /\ call.fn = "conn"
  /\ call.pc[t] = "eval"
  /\ ConnStep([call EXCEPT !.pc[t] = IF CLEANUP_SCRIPT(call.queue[t]) = 1 THEN "none" ELSE "loop"])

ConnNext ==
  \/ \E t \in Tenants : ConnPush(t)
  \/ \E t \in Tenants : SendBlpop(t)
  \/ BlpopReturns
  \/ BlpopTimesOut
  \/ \E t \in Tenants : ConnJobDone(t)
  \/ \E t \in Tenants : ConnCleanup(t)
ConnSpec == ConnInit /\ [][ConnNext]_vars

\* C35 (cross-tenant independence): within one process, a worker of tenant A blocked in
\* blpop on an empty queue:A never delays the blpop of a worker of tenant B whose
\* queue:B holds a job: no blpop whose queue holds a job waits behind a blocked one.
C35_CrossTenantIndependence ==
  call.fn = "conn" =>
    \A k \in 1..Len(call.pending) :
      call.queue[call.pending[k]] # <<>> =>
        \A i \in 1..(k - 1) : call.queue[call.pending[i]] # <<>>

\* ============================================ the replies of one POST /chat
\* One authenticated request is followed from the start of the handler to its end:
\* validation, rpush, waitForResult, the reply, the ticket branch and the catch (the
\* last three as above).  replies is the sequence of HTTP replies written to res.
HandlerInit ==
  /\ EngineInit
  /\ \E messages \in MessagesFields, success \in BOOLEAN, data \in ResultData,
        category \in Categories, ticket_id \in TicketIds,
        ticket_categories \in TicketCategories :
       call = [fn |-> "reply", messages |-> messages, success |-> success, data |-> data,
               category |-> category, ticket_id |-> ticket_id,
               ticket_categories |-> ticket_categories, pc |-> "handler",
               replies |-> <<>>, started |-> FALSE, stage |-> 0, ticket |-> "none"]

HandlerStep(c) ==
  /\ call' = c
  /\ UNCHANGED <<apiKeys, nextJob, jobs, queue, lock, result, userWorkers, worker, waiter>>

\* lines 699-700
ValidateBody ==
  /\ call.fn = "reply"
  /\ call.pc = "handler"
  /\ HandlerStep(IF ValidMessages(call.messages)
                   THEN [call EXCEPT !.pc = "rpush"]
                   ELSE [call EXCEPT !.pc = "done",
                                     !.replies = Append(@, MissingMessages)])

\* lines 721-727: the rpush is answered and waitForResult is called
PushAnswered ==
  /\ call.fn = "reply"
  /\ call.pc = "rpush"
  /\ HandlerStep([call EXCEPT !.pc = "waiting"])

\* line 721: the rpush throws
PushThrows ==
  /\ call.fn = "reply"
  /\ call.pc = "rpush"
  /\ HandlerStep([call EXCEPT !.pc = "catch"])

\* lines 654-657: a firing finds the deadline exceeded; the promise is rejected
WaitRejects ==
  /\ call.fn = "reply"
  /\ call.pc = "waiting"
  /\ HandlerStep([call EXCEPT !.pc = "catch"])

\* lines 660-663: a get finds the value; the interval is cleared and the del is sent
WaitFinds ==
  /\ call.fn = "reply"
  /\ call.pc = "waiting"
  /\ HandlerStep([call EXCEPT !.pc = "del"])

\* lines 663-664: the del is answered and the promise resolved
WaitResolves ==
  /\ call.fn = "reply"
  /\ call.pc = "del"
  /\ HandlerStep([call EXCEPT !.pc = "waited"])

\* line 663: the del throws inside the interval callback, after clearInterval: the
\* callback ends there, resolve is never called, and no later firing can reject
WaitDelThrows ==
  /\ call.fn = "reply"
  /\ call.pc = "del"
  /\ HandlerStep([call EXCEPT !.pc = "unsettled"])

HandlerNext ==
  \/ ValidateBody
  \/ PushAnswered
  \/ PushThrows
  \/ WaitRejects
  \/ WaitFinds
  \/ WaitResolves
  \/ WaitDelThrows
  \/ TicketNext
HandlerSpec == HandlerInit /\ [][HandlerNext]_vars

\* nothing of the handler is left to run
HandlerAtRest == call.pc \in {"done", "unsettled"}

\* C38 (exactly one reply): every POST /chat that passes authentication sends exactly
\* one HTTP response, of status 400, 200 or 500, on every path, also when an error is
\* thrown after the success response was sent.
C38_ExactlyOneReply ==
  call.fn = "reply" =>
    /\ Len(call.replies) <= 1
    /\ \A i \in 1..Len(call.replies) : call.replies[i].status \in {400, 200, 500}
    /\ HandlerAtRest => Len(call.replies) = 1

====
